---------------------------- MODULE Spec2Model ----------------------------
(***************************************************************************)
(* Vocabulary acquisition and review-scheduling engine of the "traced"     *)
(* browser extension: the Dexie store (vocabulary, encounters, lemmaStats, *)
(* traces, settings) and the background handlers that mutate it.           *)
(*                                                                         *)
(* Scores are kept in tenths of a point (0.1 -> 1), so the weight table    *)
(* and KNOWN_THRESHOLD stay integers.  Timestamps are whole days.          *)
(***************************************************************************)
EXTENDS Integers, Sequences, FiniteSets, TLC

\* ------------------------------------------------------------------ bounds
MaxVocab == 3          \* vocabulary ids that crypto.randomUUID() may hand out
MaxEnc == 2            \* encounter rows the store may hold
MaxDay == 2            \* last day the clock reaches
MaxDraw == 2           \* largest count a draw asks for
MaxCount == 2          \* no scan starts once a lemma was counted this often

\* ------------------------------------------------------- program constants
KNOWN_THRESHOLD == 100

ScoreCeiling == KNOWN_THRESHOLD * 10      \* 100 points, in tenths

SCORING_WEIGHTS ==
  [scan |-> 1, lookup |-> 10, trace |-> 10, manual |-> 20, import |-> 5,
   wordbank |-> 1, rate_known |-> 50, rate_familiar |-> 30, rate_unknown |-> 10]

\* ------------------------------------------------------------- environment
\* "the": a function word, listed in the noise wordbank and in an enabled
\* wordbank; "apple": a word of an enabled wordbank; "rare": a dictionary
\* word above the rank threshold, in no wordbank.
Lemmas == {"the", "apple", "rare"}
Pages == {"p1", "p2"}

VocabIds == 1..MaxVocab
EncIds == 1..MaxEnc
Days == 0..MaxDay

\* wordbankWords rows by wordbank (lemma = normalized), as loaded from
\* WORDBANK_DATA
WORDBANK_DATA == [wb_noise |-> {"the"}, wb_cet4 |-> {"apple", "the"}]

VARIABLES
  vocabulary,    \* db.vocabulary: vocabId -> VocabEntity
  encounters,    \* db.encounters: encounterId -> EncounterEntity
  traces,        \* db.traces: the (lemma, pageUrl) pairs that have a trace
  settings,      \* db.settings: the noise keys
  now,           \* Date.now(), in days
  last,          \* the last completed handler call and its outcome
  lemmaStats,    \* db.lemmaStats: normalizedLemma -> LemmaStatEntity
  userWordbanks, \* db.userWordbanks: the wordbankIds with enabled = true
  scans,         \* the handleScanPageWords calls in flight, by caller
  calls          \* the calls of the other handlers in flight, by caller

\* what the handlers that run in one step leave alone
scanState == <<lemmaStats, userWordbanks, scans, calls>>

vars == <<vocabulary, encounters, traces, settings, now, last, scanState>>

\* ------------------------------------------------------------- table helpers
Put(f, k, v) == [x \in (DOMAIN f) \cup {k} |-> IF x = k THEN v ELSE f[x]]

Remove(f, k) == [x \in (DOMAIN f) \ {k} |-> f[x]]

SetMin(S) == CHOOSE x \in S : \A y \in S : x <= y

\* db.encounters.where('vocabId').equals(vocabId)
EncOf(enc, vid) == {e \in DOMAIN enc : enc[e].vocabId = vid}

\* db.vocabulary.where('[lemma+language]').equals([lemma, 'en']).first():
\* the match of lowest primary key, soft-deleted rows included; 0 if none.
FirstByLemma(voc, lemma) ==
  LET hits == {v \in DOMAIN voc : voc[v].lemma = lemma}
  IN IF hits = {} THEN 0 ELSE SetMin(hits)

\* --------------------------------------------------------------- scoring
\* SCORING_WEIGHTS is an object literal: a property lookup that misses its
\* own keys goes on to Object.prototype.  For these tags (among others) it
\* finds a function or an object instead of `undefined`.
ObjectPrototypeKeys ==
  {"constructor", "toString", "valueOf", "hasOwnProperty", "__proto__"}

\* Not-a-number: what a function or an object times the multiplier gives.
\* Every score of the program is >= 0; NaN >= x is false for every x.
NaN == -1

\* SCORING_WEIGHTS[e.source] || 0.1
Weight(source) ==
  IF source \in DOMAIN SCORING_WEIGHTS THEN SCORING_WEIGHTS[source]
  ELSE IF source \in ObjectPrototypeKeys THEN NaN
  ELSE 1

Max2(a, b) == IF a >= b THEN a ELSE b

Min2(a, b) == IF a <= b THEN a ELSE b

\* The reduce of calculateWeightedScore; Math.max(0, NaN) and NaN + x are NaN
RECURSIVE ScoreOver(_, _, _)
ScoreOver(enc, ids, multiplier) ==
  IF ids = {} THEN 0
  ELSE LET e == SetMin(ids)
           sum == ScoreOver(enc, ids \ {e}, multiplier)
           points == Weight(enc[e].source)
       IN IF sum = NaN \/ points = NaN THEN NaN
          ELSE Max2(0, sum + points * multiplier)

\* calculateWeightedScore over the encounters of one vocabulary entry
calculateWeightedScore(enc, vid, multiplier) ==
  ScoreOver(enc, EncOf(enc, vid), multiplier)

TraceMultiplier(v) == IF v.isTraced THEN 2 ELSE 1

recalcVocabScore(voc, enc, vid) ==
  IF vid \notin DOMAIN voc \/ voc[vid].deleted \/ voc[vid].scoreLocked
  THEN voc
  ELSE LET score == calculateWeightedScore(enc, vid, TraceMultiplier(voc[vid]))
       IN [voc EXCEPT ![vid].familiarityScore = score,
                      ![vid].isKnown = (score >= ScoreCeiling)]

resetNoiseWordFields(voc, vid) ==
  [voc EXCEPT ![vid].scoreLocked = FALSE,
              ![vid].familiarityScore = 0,
              ![vid].isKnown = FALSE,
              ![vid].noiseManaged = FALSE]

\* A VocabEntity.  Fields a handler leaves undefined read as 0 / FALSE, as
\* every reader of them does (!v.isKnown, v.familiarityScore ?? 0).
\* hasIsTraced tells an isTraced that was written (true or false) from one
\* never set: handleToggleTraceWord compares with ===.
\* createdAt stands for "lastSeenAt ?? createdAt": lastSeenAt is only ever
\* written together with createdAt.
VocabEntity(lemma, locked, sourceType, day) ==
  [lemma |-> lemma,
   familiarityScore |-> IF locked THEN ScoreCeiling ELSE 0,
   isKnown |-> locked,
   scoreLocked |-> locked,
   noiseManaged |-> locked,
   isTraced |-> FALSE,
   hasIsTraced |-> FALSE,
   deleted |-> FALSE,
   sourceType |-> sourceType,
   createdAt |-> day,
   nextReviewDate |-> 0]

Done(op, status) == [op |-> op, status |-> status]

\* Ids already handed out: rows of the store, rows a scan holds in memory,
\* and ids a LemmaStat refers to.
UsedVocabIds ==
  DOMAIN vocabulary
  \cup UNION {DOMAIN scans[p].pendingNewVocab \cup DOMAIN scans[p].wordbankPending
               : p \in DOMAIN scans}
  \cup {lemmaStats[l].promotedVocabId : l \in DOMAIN lemmaStats}

FreeVocabIds == VocabIds \ UsedVocabIds

\* crypto.randomUUID() for a vocabulary row: any unused id, or 0 when the
\* model's id space is used up (a handler that needs one is then not run).
NewVocabIds == IF FreeVocabIds = {} THEN {0} ELSE FreeVocabIds

\* Encounter ids are opaque to every handler: the lowest free one is taken.
NextEncId(enc) == IF EncIds \ DOMAIN enc = {} THEN 0 ELSE SetMin(EncIds \ DOMAIN enc)

\* ------------------------------------------------------------ vocab.ts
\* handleUpsertVocab without a vocabId, as handleRecordEncounter calls it.
\* newVid = 0 with no row found: the id space is used up ("blocked").
handleUpsertVocab(voc, lemma, newVid, day) ==
  LET found == FirstByLemma(voc, lemma)
  IN IF found # 0 THEN [voc |-> voc, vocabId |-> found]
     ELSE IF newVid = 0 THEN [voc |-> voc, vocabId |-> 0]
     ELSE [voc |-> Put(voc, newVid, VocabEntity(lemma, FALSE, "none", day)),
           vocabId |-> newVid]

DedupSources == {"scan", "lookup", "wordbank"}

\* data.source || 'scan': the tag the encounter is stored with; "" is a call
\* without `source`
StoredSource(source) == IF source = "" THEN "scan" ELSE source

\* handleRecordEncounter: the tables after the call and its outcome.
\* pageUrl "" is a missing url, "bad" one that new URL() rejects.
RecordEncounter(voc, enc, vid0, word, pageUrl, source, newVid, day) ==
  LET out(s, v, e) == [voc |-> v, enc |-> e, status |-> s]
  IN
  IF pageUrl = "" THEN out("VALIDATION_ERROR", voc, enc)
  ELSE IF vid0 = 0 /\ word = "" THEN out("VALIDATION_ERROR", voc, enc)
  ELSE IF vid0 # 0 /\ (vid0 \notin DOMAIN voc \/ voc[vid0].deleted)
       THEN out("NOT_FOUND", voc, enc)
  ELSE
    LET up == IF vid0 = 0 THEN handleUpsertVocab(voc, word, newVid, day)
              ELSE [voc |-> voc, vocabId |-> vid0]
        vid == up.vocabId
        voc1 == up.voc
    IN
    IF vid = 0 THEN out("blocked", voc, enc)
    ELSE IF pageUrl \notin Pages THEN out("VALIDATION_ERROR", voc1, enc)
    ELSE IF source \in DedupSources
            /\ \E e \in EncOf(enc, vid) :
                  /\ enc[e].pageUrl = pageUrl
                  /\ enc[e].source = source
                  /\ enc[e].createdAt > day - 1
         THEN out("deduped", voc1, enc)
    ELSE IF NextEncId(enc) = 0 THEN out("blocked", voc, enc)
    ELSE
      LET surface == IF vid0 # 0 /\ word # "" THEN word ELSE voc1[vid].lemma
          enc1 == Put(enc, NextEncId(enc),
                      [vocabId |-> vid, source |-> StoredSource(source),
                       pageUrl |-> pageUrl, lemma |-> surface,
                       createdAt |-> day])
          voc2 == recalcVocabScore(voc1, enc1, vid)
          lookupCount == Cardinality({e \in EncOf(enc1, vid) : enc1[e].source = "lookup"})
          voc3 == IF source = "lookup" /\ voc2[vid].scoreLocked /\ lookupCount >= 2
                  THEN resetNoiseWordFields(voc2, vid)
                  ELSE voc2
      IN out("ok", voc3, enc1)

handleRecordEncounter(vid0, word, pageUrl, source) ==
  \E newVid \in NewVocabIds :
    LET r == RecordEncounter(vocabulary, encounters, vid0, word, pageUrl,
                             source, newVid, now)
    IN /\ r.status # "blocked"
       /\ vocabulary' = r.voc
       /\ encounters' = r.enc
       /\ last' = Done("recordEncounter", r.status)
       /\ UNCHANGED <<traces, settings, now, scanState>>

RateSource(rating) ==
  CASE rating = "known" -> "rate_known"
    [] rating = "familiar" -> "rate_familiar"
    [] OTHER -> "rate_unknown"

\* A rateWord that rates score-locked entries too
handleRateWordUnchecked(vid, rating) ==
  IF vid \notin DOMAIN vocabulary
  THEN /\ last' = Done("rateWord", "NOT_FOUND")
       /\ UNCHANGED <<vocabulary, encounters, traces, settings, now, scanState>>
  ELSE
    /\ NextEncId(encounters) # 0
    /\ LET enc1 == Put(encounters, NextEncId(encounters),
                       [vocabId |-> vid, source |-> RateSource(rating),
                        pageUrl |-> "", lemma |-> vocabulary[vid].lemma,
                        createdAt |-> now])
           newScore == calculateWeightedScore(enc1, vid, TraceMultiplier(vocabulary[vid]))
       IN /\ encounters' = enc1
          /\ vocabulary' = [vocabulary EXCEPT
                              ![vid].familiarityScore = newScore,
                              ![vid].isKnown = (newScore >= ScoreCeiling)]
    /\ last' = Done("rateWord", "ok")
    /\ UNCHANGED <<traces, settings, now, scanState>>

handleRateWord(vid, rating) ==
  IF vid \notin DOMAIN vocabulary
  THEN /\ last' = Done("rateWord", "NOT_FOUND")
       /\ UNCHANGED <<vocabulary, encounters, traces, settings, now, scanState>>
  ELSE IF vocabulary[vid].scoreLocked
  THEN /\ last' = Done("rateWord", "VALIDATION_ERROR")
       /\ UNCHANGED <<vocabulary, encounters, traces, settings, now, scanState>>
  ELSE
    /\ NextEncId(encounters) # 0
    /\ LET enc1 == Put(encounters, NextEncId(encounters),
                       [vocabId |-> vid, source |-> RateSource(rating),
                        pageUrl |-> "", lemma |-> vocabulary[vid].lemma,
                        createdAt |-> now])
           newScore == calculateWeightedScore(enc1, vid, TraceMultiplier(vocabulary[vid]))
       IN /\ encounters' = enc1
          /\ vocabulary' = [vocabulary EXCEPT
                              ![vid].familiarityScore = newScore,
                              ![vid].isKnown = (newScore >= ScoreCeiling)]
    /\ last' = Done("rateWord", "ok")
    /\ UNCHANGED <<traces, settings, now, scanState>>

handleUnlockNoiseWord(vid) ==
  IF vid \notin DOMAIN vocabulary
  THEN /\ last' = Done("unlockNoiseWord", "NOT_FOUND")
       /\ UNCHANGED <<vocabulary, encounters, traces, settings, now, scanState>>
  ELSE IF ~vocabulary[vid].scoreLocked
  THEN /\ last' = Done("unlockNoiseWord", "VALIDATION_ERROR")
       /\ UNCHANGED <<vocabulary, encounters, traces, settings, now, scanState>>
  ELSE /\ vocabulary' = resetNoiseWordFields(vocabulary, vid)
       /\ last' = Done("unlockNoiseWord", "ok")
       /\ UNCHANGED <<encounters, traces, settings, now, scanState>>

\* The write of handleToggleTraceWord once the entry is found and is not
\* already in the desired state.
ToggleTraceUpdate(voc, enc, vid, traced) ==
  LET newScore == calculateWeightedScore(enc, vid, IF traced THEN 2 ELSE 1)
  IN [voc EXCEPT ![vid].isTraced = traced,
                 ![vid].hasIsTraced = TRUE,
                 ![vid].familiarityScore = newScore,
                 ![vid].isKnown = (newScore >= ScoreCeiling)]

handleToggleTraceWord(vid, traced) ==
  IF vid \notin DOMAIN vocabulary
  THEN /\ last' = Done("toggleTrace", "NOT_FOUND")
       /\ UNCHANGED <<vocabulary, encounters, traces, settings, now, scanState>>
  ELSE IF vocabulary[vid].hasIsTraced /\ vocabulary[vid].isTraced = traced
  THEN /\ last' = Done("toggleTrace", "ok")
       /\ UNCHANGED <<vocabulary, encounters, traces, settings, now, scanState>>
  ELSE /\ vocabulary' = ToggleTraceUpdate(vocabulary, encounters, vid, traced)
       /\ last' = Done("toggleTrace", "ok")
       /\ UNCHANGED <<encounters, traces, settings, now, scanState>>

\* A hard delete that removes the row and leaves its encounters
handleDeleteVocabOnly(vid, hardDelete) ==
  IF vid \notin DOMAIN vocabulary
  THEN /\ last' = Done("deleteVocab", "NOT_FOUND")
       /\ UNCHANGED <<vocabulary, encounters, traces, settings, now, scanState>>
  ELSE /\ IF hardDelete
          THEN /\ vocabulary' = Remove(vocabulary, vid)
               /\ UNCHANGED encounters
          ELSE /\ vocabulary' = [vocabulary EXCEPT ![vid].deleted = TRUE]
               /\ UNCHANGED encounters
       /\ last' = Done("deleteVocab", "ok")
       /\ UNCHANGED <<traces, settings, now, scanState>>

handleDeleteVocab(vid, hardDelete) ==
  IF vid \notin DOMAIN vocabulary
  THEN /\ last' = Done("deleteVocab", "NOT_FOUND")
       /\ UNCHANGED <<vocabulary, encounters, traces, settings, now, scanState>>
  ELSE /\ IF hardDelete
          THEN /\ vocabulary' = Remove(vocabulary, vid)
               /\ encounters' = [e \in (DOMAIN encounters) \ EncOf(encounters, vid)
                                   |-> encounters[e]]
          ELSE /\ vocabulary' = [vocabulary EXCEPT ![vid].deleted = TRUE]
               /\ UNCHANGED encounters
       /\ last' = Done("deleteVocab", "ok")
       /\ UNCHANGED <<traces, settings, now, scanState>>

\* cleanupOrphanedVocab: the vocabulary after the call
cleanupOrphanedVocab(voc, enc, vid) ==
  IF EncOf(enc, vid) = {} THEN Remove(voc, vid) ELSE voc

\* --------------------------------------------------------- encounters.ts
SetUntraced(voc, vid) ==
  [voc EXCEPT ![vid].isTraced = FALSE, ![vid].hasIsTraced = TRUE]

TraceLemmas(tr) == {t[1] : t \in tr}

handleDeleteEncounter(eid) ==
  IF eid \notin DOMAIN encounters
  THEN /\ last' = Done("deleteEncounter", "ok")
       /\ UNCHANGED <<vocabulary, encounters, traces, settings, now, scanState>>
  ELSE
    LET e == encounters[eid]
        enc1 == Remove(encounters, eid)
        voc1 == cleanupOrphanedVocab(vocabulary, enc1, e.vocabId)
        vocabDeleted == EncOf(enc1, e.vocabId) = {}
        \* db.vocabulary.update on a missing key changes nothing
        voc2 == IF e.source = "trace" /\ e.lemma \notin TraceLemmas(traces)
                   /\ e.vocabId \in DOMAIN voc1
                THEN SetUntraced(voc1, e.vocabId)
                ELSE voc1
    IN /\ encounters' = enc1
       /\ vocabulary' = IF vocabDeleted THEN voc1
                         ELSE recalcVocabScore(voc2, enc1, e.vocabId)
       /\ last' = Done("deleteEncounter", "ok")
       /\ UNCHANGED <<traces, settings, now, scanState>>

\* ------------------------------------------------------------- traces.ts
handleSaveTrace(lemma, pageUrl) ==
  LET vid == FirstByLemma(vocabulary, lemma)
      voc1 == IF vid # 0 /\ ~vocabulary[vid].isTraced
              THEN recalcVocabScore(
                     [vocabulary EXCEPT ![vid].isTraced = TRUE,
                                        ![vid].hasIsTraced = TRUE],
                     encounters, vid)
              ELSE vocabulary
  IN /\ traces' = traces \cup {<<lemma, pageUrl>>}
     /\ vocabulary' = voc1
     /\ last' = Done("saveTrace", "ok")
     /\ UNCHANGED <<encounters, settings, now, scanState>>

handleDeleteTrace(lemma, pageUrl) ==
  IF <<lemma, pageUrl>> \notin traces
  THEN /\ last' = Done("deleteTrace", "ok")
       /\ UNCHANGED <<vocabulary, encounters, traces, settings, now, scanState>>
  ELSE
    LET tr1 == traces \ {<<lemma, pageUrl>>}
        vid == FirstByLemma(vocabulary, lemma)
        voc1 == IF vid # 0 /\ lemma \notin TraceLemmas(tr1) /\ vocabulary[vid].isTraced
                THEN SetUntraced(vocabulary, vid)
                ELSE vocabulary
    IN /\ traces' = tr1
       /\ vocabulary' = IF vid # 0 THEN recalcVocabScore(voc1, encounters, vid)
                         ELSE vocabulary
       /\ last' = Done("deleteTrace", "ok")
       /\ UNCHANGED <<encounters, settings, now, scanState>>

\* ------------------------------------------------- wordbank-loader.ts
\* The three inputs of the noise configuration, as cfgKey serialises them
NoiseConfig(st) ==
  [sourceWordbankId |-> st.noiseWordbankId,
   add |-> st.noiseManualAdd,
   remove |-> st.noiseManualRemove]

NoiseTarget(st) ==
  ((IF st.noiseWordbankId \in DOMAIN WORDBANK_DATA
    THEN WORDBANK_DATA[st.noiseWordbankId] ELSE {})
   \cup st.noiseManualAdd) \ st.noiseManualRemove

\* First loop of syncNoiseWordsFromSettings: unlock the managed locked
\* entries that left the target or are traced.
SyncUnlock(voc, target) ==
  [v \in DOMAIN voc |->
     IF voc[v].scoreLocked /\ voc[v].noiseManaged
        /\ (voc[v].lemma \notin target \/ voc[v].isTraced)
     THEN [voc[v] EXCEPT !.scoreLocked = FALSE,
                         !.familiarityScore =
                            IF voc[v].isTraced THEN voc[v].familiarityScore ELSE 0,
                         !.isKnown = FALSE,
                         !.noiseManaged = FALSE]
     ELSE voc[v]]

\* Second loop, for one target lemma; newVid is the id of a row it adds.
SyncLockOne(voc, lemma, newVid, day) ==
  LET existing == FirstByLemma(voc, lemma)
  IN IF existing # 0
     THEN IF voc[existing].isTraced THEN voc
          ELSE [voc EXCEPT ![existing].scoreLocked = TRUE,
                           ![existing].familiarityScore = ScoreCeiling,
                           ![existing].isKnown = TRUE,
                           ![existing].noiseManaged = TRUE]
     ELSE Put(voc, newVid, VocabEntity(lemma, TRUE, "none", day))

RECURSIVE SyncLock(_, _, _, _)
SyncLock(voc, lemmas, ids, day) ==
  IF lemmas = {} THEN voc
  ELSE LET l == CHOOSE x \in lemmas : TRUE
       IN SyncLock(SyncLockOne(voc, l, IF l \in DOMAIN ids THEN ids[l] ELSE 0, day),
                   lemmas \ {l}, ids, day)

\* The target lemmas that have no vocabulary row yet
SyncMissing(voc, target) == {l \in target : FirstByLemma(voc, l) = 0}

Injective(f) == \A a, b \in DOMAIN f : a # b => f[a] # f[b]

\* syncNoiseWordsFromSettings(force)
syncNoiseWordsFromSettings(force, op) ==
  IF ~force /\ settings.noiseConfigHash = <<NoiseConfig(settings)>>
  THEN /\ last' = Done(op, "skipped")
       /\ UNCHANGED <<vocabulary, encounters, traces, settings, now, scanState>>
  ELSE
    LET target == NoiseTarget(settings)
        voc1 == SyncUnlock(vocabulary, target)
        missing == SyncMissing(voc1, target)
    IN \E ids \in [missing -> FreeVocabIds] :
         /\ Injective(ids)
         /\ vocabulary' = SyncLock(voc1, target, ids, now)
         /\ settings' = [settings EXCEPT !.noiseConfigHash = <<NoiseConfig(settings)>>]
         /\ last' = Done(op, "ok")
         /\ UNCHANGED <<encounters, traces, now, scanState>>

\* initNoiseWords, run by ensureInitialized at every start of the worker
initNoiseWords == syncNoiseWordsFromSettings(TRUE, "initNoiseWords")

\* ------------------------------------------------------------ settings.ts
\* handleUpdateSettings with `preferences` holding the three noise keys
handleUpdateSettings(cfg) ==
  LET st1 == [settings EXCEPT !.noiseWordbankId = cfg.sourceWordbankId,
                              !.noiseManualAdd = cfg.add,
                              !.noiseManualRemove = cfg.remove]
      target == NoiseTarget(st1)
      voc1 == SyncUnlock(vocabulary, target)
      missing == SyncMissing(voc1, target)
  IN \E ids \in [missing -> FreeVocabIds] :
       /\ Injective(ids)
       /\ vocabulary' = SyncLock(voc1, target, ids, now)
       /\ settings' = [st1 EXCEPT !.noiseConfigHash = <<NoiseConfig(st1)>>]
       /\ last' = Done("updateSettings", "ok")
       /\ UNCHANGED <<encounters, traces, now, scanState>>

\* A day passes between two handler calls
Tick ==
  /\ now < MaxDay
  /\ now' = now + 1
  /\ UNCHANGED <<vocabulary, encounters, traces, settings, last, scanState>>

\* ------------------------------------------------------ scan-page-words.ts
\* dictionaryService: the rank of every lemma the dictionary holds
DICTIONARY == [the |-> 1, apple |-> 900, rare |-> 5000]

\* /^[a-z]{2,}$/ on a normalized token (tokens here are lower-case letters)
VALID_WORD_RE(l) == Len(l) >= 2

\* getEnabledWordbankWords: normalized lemma -> sourceWordbankIds
getEnabledWordbankWords(uw) ==
  LET enabledIds == uw \cap DOMAIN WORDBANK_DATA
      words == UNION {WORDBANK_DATA[b] : b \in enabledIds}
  IN [l \in words |-> {b \in enabledIds : l \in WORDBANK_DATA[b]}]

\* A gate that lets every dictionary word through, whatever its rank
QualifiedTokensAnyRank(tokenMap, wordbankSet, prefs) ==
  {l \in DOMAIN tokenMap :
     /\ VALID_WORD_RE(l)
     /\ \/ l \in wordbankSet
        \/ l \in DOMAIN DICTIONARY}

\* Layer 0, the dictionary gate: the lemmas of tokenMap that qualify
QualifiedTokens(tokenMap, wordbankSet, prefs) ==
  {l \in DOMAIN tokenMap :
     /\ VALID_WORD_RE(l)
     /\ \/ l \in wordbankSet
        \/ /\ l \in DOMAIN DICTIONARY
           /\ DICTIONARY[l] >= prefs.environmentRankThreshold}

\* A LemmaStatEntity at its first sighting; promotedVocabId 0 is "not set"
LemmaStatEntity(count, pageUrl, inWordbank, day) ==
  [totalCount |-> count, pageCount |-> 1, lastPageUrl |-> pageUrl,
   inWordbank |-> inWordbank, lastSeenAt |-> day,
   promotedVocabId |-> 0, promotionReason |-> "none"]

\* An update that counts a page at every scan, the same page again included
UpdatedStatEveryScan(stat, count, pageUrl, inWordbank, day) ==
  [stat EXCEPT !.totalCount = @ + count,
               !.pageCount = @ + 1,
               !.lastSeenAt = day,
               !.lastPageUrl = pageUrl,
               !.inWordbank = inWordbank]

\* The in-memory update of an existing LemmaStat row
UpdatedStat(stat, count, pageUrl, inWordbank, day) ==
  [stat EXCEPT !.totalCount = @ + count,
               !.pageCount = IF stat.lastPageUrl # pageUrl THEN @ + 1 ELSE @,
               !.lastSeenAt = day,
               !.lastPageUrl = pageUrl,
               !.inWordbank = inWordbank]

\* A promotion that looks at the count only, on however few pages
PromotionCandidatesAnyPage(stats, prefs) ==
  {l \in DOMAIN stats :
     /\ stats[l].promotedVocabId = 0
     /\ stats[l].totalCount >= prefs.promotionMinCount}

\* Lines 139-144.  cooldownUntil is written nowhere in the program: no
\* LemmaStat has a cooldown.
PromotionCandidates(stats, prefs) ==
  {l \in DOMAIN stats :
     /\ stats[l].promotedVocabId = 0
     /\ stats[l].totalCount >= prefs.promotionMinCount
     /\ stats[l].pageCount >= prefs.promotionMinPages}

ShouldLockAsNoise(prefs, wordbankWords, l) ==
  /\ \/ /\ prefs.noiseWordbankId # ""
        /\ l \in DOMAIN wordbankWords
        /\ prefs.noiseWordbankId \in wordbankWords[l]
     \/ l \in prefs.noiseManualAdd
  /\ l \notin prefs.noiseManualRemove

\* db.lemmaStats.update(stat.lemmaStatId, {promotedVocabId, promotionReason})
PromoteStat(stats, l, vid, reason) ==
  IF l \in DOMAIN stats
  THEN [stats EXCEPT ![l].promotedVocabId = vid, ![l].promotionReason = reason]
  ELSE stats

\* bulkAdd of rows held in memory
Merge(table, rows) ==
  [k \in DOMAIN table \cup DOMAIN rows |->
     IF k \in DOMAIN rows THEN rows[k] ELSE table[k]]

\* The callers that may have a handleScanPageWords call in flight: the
\* router runs handlers without any queue or lock, one call per tab here.
Procs == {"tab1", "tab2"}

\* The locals of one handleScanPageWords call.  pc names the await the call
\* is suspended at; "idle" is no call in flight.
IdleScan ==
  [pc |-> "idle", pageUrl |-> "", record |-> FALSE, day |-> 0,
   prefs |-> <<>>, wordbankWords |-> <<>>, qualifiedTokens |-> <<>>,
   statsByLemma |-> <<>>, statsToAdd |-> {}, statsToUpdate |-> {},
   promotionCandidates |-> {}, pendingNewVocab |-> <<>>,
   wordbankPending |-> <<>>, vocabByLemma |-> <<>>, toRecord |-> {},
   scored |-> {}]

\* The locals of a call of handleToggleTraceWord, handleRateWord or
\* handleRecordEncounter that is suspended at an await
IdleCall ==
  [pc |-> "idle", vocabId |-> 0, traced |-> FALSE, source |-> "",
   pageUrl |-> "", encounterId |-> 0, day |-> 0, vocab |-> <<>>,
   newScore |-> 0]

Suspend(p, locals) ==
  /\ scans' = [scans EXCEPT ![p] = locals]
  /\ UNCHANGED last

Return(p, status) ==
  /\ scans' = [scans EXCEPT ![p] = IdleScan]
  /\ last' = Done("scanPageWords", status)

\* The await a call reaches once its LemmaStat writes are done
PcAfterStats(locals) ==
  IF locals.promotionCandidates # {} THEN "promote" ELSE "layer1"

\* Lines 18-85: validation, tokenMap, settings, wordbank membership and the
\* dictionary gate.  tokenMap: normalized token -> occurrences on the page.
ScanStart(p, tokenMap, pageUrl, record) ==
  /\ scans[p].pc = "idle"
  /\ UNCHANGED <<vocabulary, encounters, traces, settings, now, lemmaStats,
                 userWordbanks, calls>>
  /\ IF pageUrl = "" THEN Return(p, "VALIDATION_ERROR")
     ELSE IF DOMAIN tokenMap = {} THEN Return(p, "ok")
     ELSE IF pageUrl \notin Pages THEN Return(p, "INVALID_URL")
     ELSE
       LET wordbankWords == getEnabledWordbankWords(userWordbanks)
           qualified == QualifiedTokens(tokenMap, DOMAIN wordbankWords, settings)
       IN Suspend(p, [IdleScan EXCEPT
                        !.pc = "stats", !.pageUrl = pageUrl, !.record = record,
                        !.day = now, !.prefs = settings,
                        !.wordbankWords = wordbankWords,
                        !.qualifiedTokens = [l \in qualified |-> tokenMap[l]]])

\* Lines 88-132: read the existing LemmaStats, aggregate in memory
ScanReadStats(p) ==
  LET s == scans[p]
      existing == DOMAIN s.qualifiedTokens \cap DOMAIN lemmaStats
      statsByLemma ==
        [l \in DOMAIN s.qualifiedTokens |->
           IF l \in existing
           THEN UpdatedStat(lemmaStats[l], s.qualifiedTokens[l], s.pageUrl,
                            l \in DOMAIN s.wordbankWords, s.day)
           ELSE LemmaStatEntity(s.qualifiedTokens[l], s.pageUrl,
                                l \in DOMAIN s.wordbankWords, s.day)]
      s1 == [s EXCEPT !.statsByLemma = statsByLemma,
                      !.statsToAdd = DOMAIN s.qualifiedTokens \ existing,
                      !.statsToUpdate = existing,
                      !.promotionCandidates =
                         PromotionCandidates(statsByLemma, s.prefs)]
  IN /\ s.pc = "stats"
     /\ Suspend(p, [s1 EXCEPT !.pc = IF s1.statsToAdd # {} THEN "addStats"
                                     ELSE IF s1.statsToUpdate # {} THEN "putStats"
                                     ELSE PcAfterStats(s1)])
     /\ UNCHANGED <<vocabulary, encounters, traces, settings, now, lemmaStats,
                    userWordbanks, calls>>

\* Line 135: db.lemmaStats.bulkAdd(statsToAdd).  normalizedLemma is a unique
\* index: the rows that clash are rejected, the others are committed, and
\* the call fails with the BulkError.
ScanAddStats(p) ==
  LET s == scans[p]
      clash == s.statsToAdd \cap DOMAIN lemmaStats
  IN /\ s.pc = "addStats"
     /\ lemmaStats' = [l \in DOMAIN lemmaStats \cup s.statsToAdd |->
                         IF l \in DOMAIN lemmaStats THEN lemmaStats[l]
                         ELSE s.statsByLemma[l]]
     /\ IF clash # {} THEN Return(p, "ConstraintError")
        ELSE Suspend(p, [s EXCEPT !.pc = IF s.statsToUpdate # {} THEN "putStats"
                                         ELSE PcAfterStats(s)])
     /\ UNCHANGED <<vocabulary, encounters, traces, settings, now, userWordbanks, calls>>

\* Line 136: db.lemmaStats.bulkPut(statsToUpdate), whole rows
ScanPutStats(p) ==
  LET s == scans[p]
  IN /\ s.pc = "putStats"
     /\ lemmaStats' = [l \in DOMAIN lemmaStats \cup s.statsToUpdate |->
                         IF l \in s.statsToUpdate THEN s.statsByLemma[l]
                         ELSE lemmaStats[l]]
     /\ Suspend(p, [s EXCEPT !.pc = PcAfterStats(s)])
     /\ UNCHANGED <<vocabulary, encounters, traces, settings, now, userWordbanks, calls>>

\* Lines 147-202, one promotion candidate: look the lemma up in the
\* vocabulary, mark the LemmaStat, keep a new entry in pendingNewVocab.
ScanPromote(p) ==
  LET s == scans[p]
      l == CHOOSE x \in s.promotionCandidates : TRUE
      existingVocab == FirstByLemma(vocabulary, l)
      after(vid, pending) ==
        LET rest == s.promotionCandidates \ {l}
        IN [s EXCEPT !.statsByLemma = PromoteStat(@, l, vid, "threshold"),
                     !.pendingNewVocab = pending,
                     !.promotionCandidates = rest,
                     !.pc = IF rest # {} THEN "promote"
                            ELSE IF DOMAIN pending # {} THEN "addVocab"
                            ELSE "layer1"]
  IN /\ s.pc = "promote"
     /\ IF existingVocab # 0
        THEN /\ lemmaStats' = PromoteStat(lemmaStats, l, existingVocab, "threshold")
             /\ Suspend(p, after(existingVocab, s.pendingNewVocab))
        ELSE \E vocabId \in FreeVocabIds :
               LET newVocab ==
                     VocabEntity(l, ShouldLockAsNoise(s.prefs, s.wordbankWords, l),
                                 IF s.statsByLemma[l].inWordbank THEN "wordbank"
                                 ELSE "ai", s.day)
               IN /\ lemmaStats' = PromoteStat(lemmaStats, l, vocabId, "threshold")
                  /\ Suspend(p, after(vocabId, Put(s.pendingNewVocab, vocabId, newVocab)))
     /\ UNCHANGED <<vocabulary, encounters, traces, settings, now, userWordbanks, calls>>

\* Line 206: db.vocabulary.bulkAdd(pendingNewVocab)
ScanAddVocab(p) ==
  LET s == scans[p]
  IN /\ s.pc = "addVocab"
     /\ vocabulary' = Merge(vocabulary, s.pendingNewVocab)
     /\ Suspend(p, [s EXCEPT !.pc = "layer1", !.pendingNewVocab = <<>>])
     /\ UNCHANGED <<encounters, traces, settings, now, lemmaStats, userWordbanks, calls>>

\* -------------------------------------------------------------------------
\* Spec: the handlers of the noise-word and trace life cycle, one call at a
\* time, on a store that starts as ensureInitialized leaves a fresh install.
DefaultSettings ==
  [promotionMinCount |-> 6, promotionMinPages |-> 3,
   environmentRankThreshold |-> 2000,
   autoTraceEnabled |-> TRUE, autoTracePoolSize |-> 30,
   autoTraceMinEncounters |-> 3,
   noiseWordbankId |-> "", noiseManualAdd |-> {}, noiseManualRemove |-> {},
   noiseConfigHash |-> <<[sourceWordbankId |-> "", add |-> {}, remove |-> {}]>>]

Init ==
  /\ vocabulary = <<>>
  /\ encounters = <<>>
  /\ traces = {}
  /\ settings = DefaultSettings
  /\ now = 0
  /\ last = Done("init", "ok")
  /\ lemmaStats = <<>>
  /\ userWordbanks = {}
  /\ scans = [p \in Procs |-> IdleScan]
  /\ calls = [p \in Procs |-> IdleCall]

NoiseConfigs ==
  {[sourceWordbankId |-> "wb_noise", add |-> {}, remove |-> {}],
   [sourceWordbankId |-> "wb_noise", add |-> {}, remove |-> {"the"}],
   [sourceWordbankId |-> "", add |-> {}, remove |-> {}]}

Next ==
  \/ \E w \in {"the"}, p \in {"p1", "bad"} :
        handleRecordEncounter(0, w, p, "lookup")
  \/ \E v \in VocabIds : handleRecordEncounter(v, "", "p1", "lookup")
  \/ \E v \in VocabIds : handleRateWord(v, "known")
  \/ \E v \in VocabIds : handleUnlockNoiseWord(v)
  \/ \E v \in VocabIds, t \in BOOLEAN : handleToggleTraceWord(v, t)
  \/ \E l \in {"the"} : handleSaveTrace(l, "p1")
  \/ \E l \in {"the"} : handleDeleteTrace(l, "p1")
  \/ \E cfg \in NoiseConfigs : handleUpdateSettings(cfg)
  \/ initNoiseWords

Spec == Init /\ [][Next]_vars

SetMax(S) == CHOOSE x \in S : \A y \in S : x >= y

\* new Map(allVocab.map(v => [normalizeLemma(v.lemma), v])) over the rows
\* that are not soft-deleted, in primary-key order: the last row of a lemma
\* is the one the map keeps.
VocabByLemma(voc) ==
  LET allVocab == {v \in DOMAIN voc : ~voc[v].deleted}
  IN [l \in {voc[v].lemma : v \in allVocab} |->
        SetMax({v \in allVocab : voc[v].lemma = l})]

\* Lines 210-262: the wordbank layer.  Reads the vocabulary, creates in
\* memory an entry for every wordbank word of the page that has none, marks
\* its LemmaStat, and matches the vocabulary against the page.
ScanWordbankLayer(p) ==
  LET s == scans[p]
      known == VocabByLemma(vocabulary)
      missing == (DOMAIN s.wordbankWords \cap DOMAIN s.qualifiedTokens) \ DOMAIN known
  IN /\ s.pc = "layer1"
     /\ \E ids \in [missing -> FreeVocabIds] :
          /\ Injective(ids)
          /\ LET wordbankPending ==
                   [v \in {ids[l] : l \in missing} |->
                      LET l == CHOOSE x \in missing : ids[x] = v
                      IN VocabEntity(l, ShouldLockAsNoise(s.prefs, s.wordbankWords, l),
                                     "wordbank", s.day)]
                 unmarked == {l \in missing : s.statsByLemma[l].promotedVocabId = 0}
                 vocabByLemma == [l \in DOMAIN known \cup missing |->
                                    IF l \in missing THEN ids[l] ELSE known[l]]
                 matched == DOMAIN vocabByLemma \cap DOMAIN s.qualifiedTokens
             IN /\ lemmaStats' =
                     [l \in DOMAIN lemmaStats |->
                        IF l \in unmarked
                        THEN [lemmaStats[l] EXCEPT !.promotedVocabId = ids[l],
                                                   !.promotionReason = "wordbank"]
                        ELSE lemmaStats[l]]
                /\ IF matched = {} \/ ~s.record THEN Return(p, "ok")
                   ELSE Suspend(p, [s EXCEPT
                          !.wordbankPending = wordbankPending,
                          !.vocabByLemma = vocabByLemma,
                          !.toRecord = matched,
                          !.pc = IF missing # {} THEN "persist" ELSE "record"])
     /\ UNCHANGED <<vocabulary, encounters, traces, settings, now, userWordbanks, calls>>

\* Line 364: db.vocabulary.bulkAdd(vocabToPersist), reached with record only
ScanPersist(p) ==
  LET s == scans[p]
  IN /\ s.pc = "persist"
     /\ vocabulary' = Merge(vocabulary, s.wordbankPending)
     /\ Suspend(p, [s EXCEPT !.pc = "record", !.wordbankPending = <<>>])
     /\ UNCHANGED <<encounters, traces, settings, now, lemmaStats, userWordbanks, calls>>

\* Lines 366-382: one of the handleRecordEncounter calls of Promise.all;
\* its failure is caught and logged.
ScanRecord(p) ==
  LET s == scans[p]
      l == CHOOSE x \in s.toRecord : TRUE
      r == RecordEncounter(vocabulary, encounters, s.vocabByLemma[l], l,
                           s.pageUrl, "scan", 0, now)
      rest == s.toRecord \ {l}
  IN /\ s.pc = "record"
     /\ r.status # "blocked"
     /\ vocabulary' = r.voc
     /\ encounters' = r.enc
     /\ IF rest = {} /\ ~s.prefs.autoTraceEnabled THEN Return(p, "ok")
        ELSE Suspend(p, [s EXCEPT !.toRecord = rest,
                                  !.pc = IF rest = {} THEN "autoTrace" ELSE "record"])
     /\ UNCHANGED <<traces, settings, now, lemmaStats, userWordbanks, calls>>

\* s.count * recencyFactor, times 30: recencyFactor = max(0.1, 1 - days/30)
AutoTraceScore(enc, vid, day) ==
  LET lastSeen == SetMax({enc[e].createdAt : e \in EncOf(enc, vid)})
  IN Cardinality(EncOf(enc, vid)) * Max2(3, 30 - (day - lastSeen))

\* items.sort((a, b) => b.score - a.score).slice(0, n) over rows in
\* primary-key order: the sort is stable, equal scores keep the id order.
TopN(ids, score, n) ==
  {v \in ids :
     Cardinality({u \in ids : \/ score[u] > score[v]
                              \/ (score[u] = score[v] /\ u < v)}) < n}

\* Lines 389-425: count the active traced pool, rank the candidates
ScanAutoTraceRead(p) ==
  LET s == scans[p]
      currentTraced ==
        Cardinality({v \in DOMAIN vocabulary :
                       /\ vocabulary[v].isTraced /\ ~vocabulary[v].isKnown
                       /\ ~vocabulary[v].deleted})
      slots == s.prefs.autoTracePoolSize - currentTraced
      candidates ==
        {v \in DOMAIN vocabulary :
           /\ ~vocabulary[v].isTraced /\ ~vocabulary[v].isKnown
           /\ ~vocabulary[v].scoreLocked /\ ~vocabulary[v].deleted
           /\ VALID_WORD_RE(vocabulary[v].lemma)}
      withStats ==
        {v \in candidates :
           /\ Cardinality(EncOf(encounters, v)) >= s.prefs.autoTraceMinEncounters
           /\ EncOf(encounters, v) # {}
           /\ \/ vocabulary[v].lemma \in DOMAIN s.wordbankWords
              \/ vocabulary[v].lemma \in DOMAIN DICTIONARY}
      score == [v \in withStats |-> AutoTraceScore(encounters, v, s.day)]
      scored == IF slots > 0 THEN TopN(withStats, score, slots) ELSE {}
  IN /\ s.pc = "autoTrace"
     /\ IF scored = {} THEN Return(p, "ok")
        ELSE Suspend(p, [s EXCEPT !.pc = "traceWrite", !.scored = scored])
     /\ UNCHANGED <<vocabulary, encounters, traces, settings, now, lemmaStats,
                    userWordbanks, calls>>

\* Lines 426-431: db.vocabulary.update(vocabId, {isTraced: true}) per pick;
\* an update of a row that is gone changes nothing.
ScanAutoTraceWrite(p) ==
  LET s == scans[p]
  IN /\ s.pc = "traceWrite"
     /\ vocabulary' = [v \in DOMAIN vocabulary |->
                         IF v \in s.scored
                         THEN [vocabulary[v] EXCEPT !.isTraced = TRUE,
                                                    !.hasIsTraced = TRUE]
                         ELSE vocabulary[v]]
     /\ Return(p, "ok")
     /\ UNCHANGED <<encounters, traces, settings, now, lemmaStats, userWordbanks, calls>>

\* SpecScan: concurrent page scans, suspended and resumed at their awaits,
\* next to word lookups that create entries, on a store whose user enabled
\* the wordbank wb_cet4 and lowered the promotion thresholds.
ScanSettings ==
  [DefaultSettings EXCEPT !.promotionMinCount = 2, !.promotionMinPages = 1,
                          !.autoTracePoolSize = 1, !.autoTraceMinEncounters = 1]

InitScan ==
  /\ vocabulary = <<>>
  /\ encounters = <<>>
  /\ traces = {}
  /\ settings = ScanSettings
  /\ now = 0
  /\ last = Done("init", "ok")
  /\ lemmaStats = <<>>
  /\ userWordbanks = {"wb_cet4"}
  /\ scans = [p \in Procs |-> IdleScan]
  /\ calls = [p \in Procs |-> IdleCall]

\* The pages scanned: token occurrences by page
ScanInputs ==
  {[tokenMap |-> ("rare" :> 2), pageUrl |-> "p1"],
   [tokenMap |-> ("apple" :> 1), pageUrl |-> "p2"]}

NextScan ==
  \/ \E p \in Procs, i \in ScanInputs, record \in BOOLEAN :
        /\ \A l \in DOMAIN lemmaStats : lemmaStats[l].totalCount < MaxCount
        /\ ScanStart(p, i.tokenMap, i.pageUrl, record)
  \/ \E p \in Procs : ScanReadStats(p)
  \/ \E p \in Procs : ScanAddStats(p)
  \/ \E p \in Procs : ScanPutStats(p)
  \/ \E p \in Procs : ScanPromote(p)
  \/ \E p \in Procs : ScanAddVocab(p)
  \/ \E p \in Procs : ScanWordbankLayer(p)
  \/ \E p \in Procs : ScanPersist(p)
  \/ \E p \in Procs : ScanRecord(p)
  \/ \E p \in Procs : ScanAutoTraceRead(p)
  \/ \E p \in Procs : ScanAutoTraceWrite(p)

SpecScan == InitScan /\ [][NextScan]_vars


\* ------------------------------------------------- vocab.ts: handleDrawCard
\* The seeded generator: state = (state * 1664525 + 1013904223) % 2^32.
\* The state is held in two 16-bit limbs <<hi, lo>> so that no intermediate
\* product leaves the 32-bit integers.
LcgMultiplier == 1664525

LcgIncrement == 1013904223

Limb == 2^16

LcgState(seed) == <<(seed \div Limb) % Limb, seed % Limb>>

LcgNext(state) ==
  LET low == state[2] * (LcgMultiplier % Limb) + (LcgIncrement % Limb)
      high == state[1] * (LcgMultiplier % Limb)
              + state[2] * (LcgMultiplier \div Limb)
              + (LcgIncrement \div Limb) + (low \div Limb)
  IN <<high % Limb, low % Limb>>

\* The state after k calls of rng()
RECURSIVE LcgAfter(_, _)
LcgAfter(seed, k) ==
  IF k = 0 THEN LcgState(seed) ELSE LcgNext(LcgAfter(seed, k - 1))

\* floor(log2 m), m >= 1
RECURSIVE FloorLog2(_)
FloorLog2(m) == IF m < 2 THEN 0 ELSE 1 + FloorLog2(m \div 2)

\* The first k binary digits of log2(x / 2^14) for 2^14 <= x < 2^15, by
\* repeated squaring
RECURSIVE Log2Fraction(_, _)
Log2Fraction(x, k) ==
  IF k = 0 THEN 0
  ELSE LET y == (x * x) \div 2^14
       IN IF y >= 2^15 THEN 2^(k - 1) + Log2Fraction(y \div 2, k - 1)
          ELSE Log2Fraction(y, k - 1)

\* 256 * log2(m) for 1 <= m < 2^16, rounded down to 8 binary digits
Log2Fixed(m) ==
  LET e == FloorLog2(m)
      x == IF e <= 14 THEN m * 2^(14 - e) ELSE m \div 2
  IN 256 * e + Log2Fraction(x, 8)

\* -256 * log2(u) for the u = state / 2^32 that rng() returns; u = 0 ranks
\* below every other draw (Math.pow(0, x) = 0)
NegLog2(state) ==
  IF state[1] > 0 THEN 256 * 16 - Log2Fixed(state[1])
  ELSE IF state[2] > 0 THEN 256 * 32 - Log2Fixed(state[2])
  ELSE 256 * 32 + 1

\* The order of key = Math.pow(u, 1 / Math.max(0.001, priority)), as an
\* integer: log2(key) = log2(u) / priority, scaled.  priority is in units of
\* 1/28000 and is never below 0.06 for an eligible entry.
SampleKey(state, priority) == 0 - ((NegLog2(state) * 2^17) \div priority)

\* priority of one eligible entry, in units of 1/28000:
\* srsDue * 0.45 + difficulty * 0.25 + urgency * 0.20 + recency * 0.10
Priority(v, score, day) ==
  LET daysSinceLastSeen == day - v.createdAt
      srsDue == IF v.nextReviewDate > 0 /\ v.nextReviewDate < day
                THEN 1800 * Min2(7, day - v.nextReviewDate)
                ELSE IF v.nextReviewDate = 0 THEN 6300 ELSE 0
      difficulty == 7 * (ScoreCeiling - score)
      urgency == IF v.isTraced THEN 5600 ELSE 1680
      recency == 200 * Min2(14, daysSinceLastSeen)
  IN srsDue + difficulty + urgency + recency

\* An insertion that puts an item ahead of its equals: an unstable sort
InsertAhead(sorted, x) ==
  LET before == {i \in 1..Len(sorted) : sorted[i].sortKey > x.sortKey}
      k == Cardinality(before)
  IN SubSeq(sorted, 1, k) \o <<x>> \o SubSeq(sorted, k + 1, Len(sorted))

\* Array.prototype.sort((a, b) => b.sortKey - a.sortKey): a stable sort,
\* items of equal sortKey keep their order.
InsertDesc(sorted, x) ==
  LET before == {i \in 1..Len(sorted) : sorted[i].sortKey >= x.sortKey}
      k == Cardinality(before)
  IN SubSeq(sorted, 1, k) \o <<x>> \o SubSeq(sorted, k + 1, Len(sorted))

RECURSIVE SortDesc(_)
SortDesc(items) ==
  IF items = <<>> THEN <<>>
  ELSE InsertDesc(SortDesc(SubSeq(items, 1, Len(items) - 1)), items[Len(items)])

\* A slice that keeps one item too many
SliceOne(items, n) == SubSeq(items, 1, Min2(n + 1, Len(items)))

\* Array.prototype.slice(0, n) for an integer n >= 0
Slice(items, n) == SubSeq(items, 1, Min2(n, Len(items)))

pickTopN(items, n) ==
  Slice(SortDesc([i \in 1..Len(items) |->
                    [items[i] EXCEPT !.sortKey = items[i].priority]]), n)

\* Efraimidis-Spirakis: the i-th item gets the i-th draw of the generator
weightedSampleWithoutReplacement(items, n, seed) ==
  Slice(SortDesc([i \in 1..Len(items) |->
                    [items[i] EXCEPT !.sortKey =
                       SampleKey(LcgAfter(seed, i), items[i].priority)]]), n)

\* The ids of a table in primary-key order, as toArray() returns them
RECURSIVE InKeyOrder(_)
InKeyOrder(ids) ==
  IF ids = {} THEN <<>> ELSE <<SetMin(ids)>> \o InKeyOrder(ids \ {SetMin(ids)})

\* `seed` of the payload when the caller gives none
NoSeed == -1

\* Seeds Math.random's stream is drawn from
RandomSeeds == {1, 2}

\* A sampler that ignores `seed` and always uses Math.random
RngUnseeded(mode, seed) == RandomSeeds

\* The streams rng() may produce in one call: none in mode 'auto', the LCG
\* from `seed` when one is given, any stream of Math.random otherwise
RngSeeds(mode, seed) ==
  IF mode = "auto" THEN {NoSeed}
  ELSE IF seed # NoSeed THEN {seed}
  ELSE RandomSeeds

\* Lines 365-367: the rows that are not deleted, locked or stored as known
DrawCandidates(voc) ==
  {v \in DOMAIN voc : ~voc[v].deleted /\ ~voc[v].scoreLocked /\ ~voc[v].isKnown}

\* An eligibility that trusts the stored isKnown, without the recomputed score
DrawEligibleStored(voc, enc, excludeIds) ==
  {v \in DrawCandidates(voc) : v \notin excludeIds}

\* Lines 381-390: the candidates not excluded whose recomputed score is
\* below the threshold
DrawEligible(voc, enc, excludeIds) ==
  {v \in DrawCandidates(voc) :
     /\ v \notin excludeIds
     /\ LET score == calculateWeightedScore(enc, v, TraceMultiplier(voc[v]))
        IN score # NaN /\ score < ScoreCeiling}

\* The vocabIds of the cards handleDrawCard returns, in order
DrawCards(voc, enc, day, count, mode, excludeIds, seed) ==
  LET eligible == InKeyOrder(DrawEligible(voc, enc, excludeIds))
      scored == [i \in 1..Len(eligible) |->
                   LET v == eligible[i]
                       score == calculateWeightedScore(enc, v, TraceMultiplier(voc[v]))
                   IN [vocabId |-> v, priority |-> Priority(voc[v], score, day),
                       sortKey |-> 0]]
      selected == IF mode = "auto" THEN pickTopN(scored, count)
                  ELSE weightedSampleWithoutReplacement(scored, count, seed)
  IN [i \in 1..Len(selected) |-> selected[i].vocabId]

\* handleDrawCard.  `last` keeps the call: its arguments, the clock it read
\* and its cards, and whether the call completed just before it was the same
\* call at the same clock.
handleDrawCard(count, mode, excludeIds, seed) ==
  \E stream \in RngSeeds(mode, seed) :
    LET cards == DrawCards(vocabulary, encounters, now, count, mode, excludeIds,
                           stream)
        repeated == /\ last.op = "drawCard"
                    /\ last.count = count /\ last.mode = mode
                    /\ last.excludeIds = excludeIds /\ last.seed = seed
                    /\ last.at = now
    IN /\ last' = [op |-> "drawCard", status |-> "ok", count |-> count,
                   mode |-> mode, excludeIds |-> excludeIds, seed |-> seed,
                   at |-> now, cards |-> cards, repeated |-> repeated]
       /\ UNCHANGED <<vocabulary, encounters, traces, settings, now, scanState>>

\* SpecDraw: review draws, from the day after the entries were created on,
\* over the stores of MaxVocab entries.
\* An entry of the store is of one of these kinds:
\*   new      never met on a page, no review date
\*   traced   traced by the user, looked up once
\*   due      carried over the version-4 upgrade on day 0: review date day 1
\*   noise    locked by the noise reconciliation
\*   deleted  soft-deleted
\*   known    traced, rated known ten times: score 100, stored as known
\*   stale    rated known ten times (score 50), then traced by the auto-trace
\*            pool, which does not recompute: stored score 50, not known
DrawKinds == {"new", "traced", "due", "noise", "deleted", "known", "stale"}

DrawEntry(kind) ==
  LET new == VocabEntity("rare", FALSE, "ai", 0)
      traced == [new EXCEPT !.isTraced = TRUE, !.hasIsTraced = TRUE]
  IN CASE kind = "new" -> new
       [] kind = "traced" -> [traced EXCEPT !.familiarityScore = 20]
       [] kind = "due" -> [new EXCEPT !.nextReviewDate = 1]
       [] kind = "noise" -> VocabEntity("the", TRUE, "wordbank", 0)
       [] kind = "deleted" -> [new EXCEPT !.deleted = TRUE]
       [] kind = "known" -> [traced EXCEPT !.familiarityScore = ScoreCeiling,
                                           !.isKnown = TRUE]
       [] OTHER -> [traced EXCEPT !.familiarityScore = 500]

\* The encounters of an entry of each kind
DrawEncounters(kind) ==
  CASE kind = "traced" -> <<"lookup">>
    [] kind \in {"known", "stale"} -> [i \in 1..10 |-> "rate_known"]
    [] OTHER -> <<>>

\* Encounter rows of the entries of a store: row 10 * (v - 1) + i is the
\* i-th encounter of entry v
EncountersOf(kinds) ==
  LET rows == {<<v, i>> \in (DOMAIN kinds) \X (1..10) :
                 i <= Len(DrawEncounters(kinds[v]))}
  IN [e \in {10 * (r[1] - 1) + r[2] : r \in rows} |->
        LET v == ((e - 1) \div 10) + 1
        IN [vocabId |-> v, source |-> DrawEncounters(kinds[v])[e - 10 * (v - 1)],
            pageUrl |-> "p1", lemma |-> DrawEntry(kinds[v]).lemma,
            createdAt |-> 0]]

InitDraw ==
  \E kinds \in [VocabIds -> DrawKinds] :
    /\ vocabulary = [v \in VocabIds |-> DrawEntry(kinds[v])]
    /\ encounters = EncountersOf(kinds)
    /\ traces = {}
    /\ settings = DefaultSettings
    /\ now = 1
    /\ last = Done("init", "ok")
    /\ lemmaStats = <<>>
    /\ userWordbanks = {}
    /\ scans = [p \in Procs |-> IdleScan]
    /\ calls = [p \in Procs |-> IdleCall]

\* The draws asked for: top-N, seeded sampling and unseeded sampling
DrawModes ==
  {[mode |-> "auto", seed |-> NoSeed], [mode |-> "shuffle", seed |-> 42],
   [mode |-> "shuffle", seed |-> NoSeed]}

NextDraw ==
  \/ \E count \in 0..MaxDraw, m \in DrawModes, excludeIds \in {{}, {1}} :
        handleDrawCard(count, m.mode, excludeIds, m.seed)
  \/ Tick

SpecDraw == InitDraw /\ [][NextDraw]_vars

\* ------------------------------------------- cleanup-old-encounters.ts
\* What handleCleanupOldEncounters returns for the store as it is: the
\* numbers of stale encounters and stale LemmaStats it found, and the number
\* of vocabulary rows it deleted, which a dry run reports as 0.
CleanupResult(cleanupAgeDays, cleanupMinCount, dryRun) ==
  LET cutoff == now - Max2(1, cleanupAgeDays)
      staleLemmaSet ==
        {l \in DOMAIN lemmaStats :
           /\ lemmaStats[l].lastSeenAt < cutoff
           /\ lemmaStats[l].totalCount < cleanupMinCount
           /\ lemmaStats[l].promotedVocabId = 0}
      staleEncounters ==
        {e \in DOMAIN encounters :
           /\ encounters[e].createdAt < cutoff
           /\ encounters[e].lemma \in staleLemmaSet}
      enc1 == [e \in (DOMAIN encounters) \ staleEncounters |-> encounters[e]]
      touchedVocabIds == {encounters[e].vocabId : e \in staleEncounters}
      deleted ==
        {v \in touchedVocabIds \cap DOMAIN vocabulary :
           /\ EncOf(enc1, v) = {}
           /\ ~(\/ vocabulary[v].isTraced
                \/ vocabulary[v].scoreLocked
                \/ vocabulary[v].sourceType = "manual")}
  IN [deletedEncounters |-> Cardinality(staleEncounters),
      deletedLemmaStats |-> Cardinality(staleLemmaSet),
      deletedVocabulary |-> IF dryRun THEN 0 ELSE Cardinality(deleted)]

\* The cleanup that deletes whether or not a dry run was asked for
handleCleanupOldEncountersAlways(cleanupAgeDays, cleanupMinCount, dryRun) ==
  LET cutoff == now - Max2(1, cleanupAgeDays)
      staleLemmaSet ==
        {l \in DOMAIN lemmaStats :
           /\ lemmaStats[l].lastSeenAt < cutoff
           /\ lemmaStats[l].totalCount < cleanupMinCount
           /\ lemmaStats[l].promotedVocabId = 0}
      staleEncounters ==
        {e \in DOMAIN encounters :
           /\ encounters[e].createdAt < cutoff
           /\ encounters[e].lemma \in staleLemmaSet}
      enc1 == [e \in (DOMAIN encounters) \ staleEncounters |-> encounters[e]]
      touchedVocabIds == {encounters[e].vocabId : e \in staleEncounters}
      deleted ==
        {v \in touchedVocabIds \cap DOMAIN vocabulary :
           /\ EncOf(enc1, v) = {}
           /\ ~(\/ vocabulary[v].isTraced
                \/ vocabulary[v].scoreLocked
                \/ vocabulary[v].sourceType = "manual")}
  IN /\ last' = Done("cleanupOldEncounters", IF dryRun THEN "dryRun" ELSE "ok")
     /\ encounters' = enc1
     /\ lemmaStats' = [l \in (DOMAIN lemmaStats) \ staleLemmaSet |->
                         lemmaStats[l]]
     /\ vocabulary' = [v \in (DOMAIN vocabulary) \ deleted |->
                         vocabulary[v]]
     /\ UNCHANGED <<traces, settings, now, userWordbanks, scans, calls>>

\* handleCleanupOldEncounters: the stale LemmaStats (old, rarely counted,
\* not promoted) and the old encounters of their lemmas are deleted in one
\* transaction; an entry left without encounters is deleted unless it is
\* traced, locked or manual; a dry run writes nothing (last.status tells it
\* from a real run).  enc.lemma is the encounter's normalizedSurface.
handleCleanupOldEncounters(cleanupAgeDays, cleanupMinCount, dryRun) ==
  LET cutoff == now - Max2(1, cleanupAgeDays)
      staleLemmaSet ==
        {l \in DOMAIN lemmaStats :
           /\ lemmaStats[l].lastSeenAt < cutoff
           /\ lemmaStats[l].totalCount < cleanupMinCount
           /\ lemmaStats[l].promotedVocabId = 0}
      staleEncounters ==
        {e \in DOMAIN encounters :
           /\ encounters[e].createdAt < cutoff
           /\ encounters[e].lemma \in staleLemmaSet}
      enc1 == [e \in (DOMAIN encounters) \ staleEncounters |-> encounters[e]]
      touchedVocabIds == {encounters[e].vocabId : e \in staleEncounters}
      deleted ==
        {v \in touchedVocabIds \cap DOMAIN vocabulary :
           /\ EncOf(enc1, v) = {}
           /\ ~(\/ vocabulary[v].isTraced
                \/ vocabulary[v].scoreLocked
                \/ vocabulary[v].sourceType = "manual")}
  IN /\ last' = Done("cleanupOldEncounters", IF dryRun THEN "dryRun" ELSE "ok")
     /\ IF dryRun
        THEN UNCHANGED <<vocabulary, encounters, lemmaStats>>
        ELSE /\ encounters' = enc1
             /\ lemmaStats' = [l \in (DOMAIN lemmaStats) \ staleLemmaSet |->
                                 lemmaStats[l]]
             /\ vocabulary' = [v \in (DOMAIN vocabulary) \ deleted |->
                                 vocabulary[v]]
     /\ UNCHANGED <<traces, settings, now, userWordbanks, scans, calls>>

\* SpecScore: the handlers that change the encounters or the trace flag of
\* one entry or delete it, one call at a time, with days passing in between;
\* once the entry is gone, the calls are calls on an id that does not exist.  The store
\* holds one entry of 'rare', created by a lookup on day 0, and the LemmaStat
\* a scan of p1 on day 0 left for the one 'rare' it counted (below the
\* promotion threshold).  The entry is of one of these kinds:
\*   looked   looked up once: score 1
\*   known    looked up once, traced by the user, rated known ten times:
\*            score (1 + 10 * 5) * 2 = 102, known
ScoreKinds == {"looked", "known"}

ScoreEntry(kind) ==
  LET looked == [VocabEntity("rare", FALSE, "none", 0) EXCEPT
                   !.familiarityScore = 10]
  IN IF kind = "looked" THEN looked
     ELSE [looked EXCEPT !.isTraced = TRUE, !.hasIsTraced = TRUE,
                         !.familiarityScore = 1020, !.isKnown = TRUE]

\* The history of the entry: rows 11, 12, ... so that the rows a handler adds
\* take the ids from 1 on
ScoreEncounters(kind) ==
  LET n == IF kind = "looked" THEN 1 ELSE 11
  IN [e \in 11..(10 + n) |->
        [vocabId |-> 1,
         source |-> IF e = 11 THEN "lookup" ELSE "rate_known",
         pageUrl |-> IF e = 11 THEN "p1" ELSE "",
         lemma |-> "rare", createdAt |-> 0]]

InitScore ==
  \E kind \in ScoreKinds :
    /\ vocabulary = (1 :> ScoreEntry(kind))
    /\ encounters = ScoreEncounters(kind)
    /\ traces = {}
    /\ settings = DefaultSettings
    /\ now = 0
    /\ last = Done("init", "ok")
    /\ lemmaStats = ("rare" :> LemmaStatEntity(1, "p1", FALSE, 0))
    /\ userWordbanks = {}
    /\ scans = [p \in Procs |-> IdleScan]
    /\ calls = [p \in Procs |-> IdleCall]

NextScore ==
  \/ handleRecordEncounter(1, "", "p1", "lookup")
  \/ handleRateWord(1, "known")
  \/ \E t \in BOOLEAN : handleToggleTraceWord(1, t)
  \/ \E e \in {1, 11, 12} : handleDeleteEncounter(e)
  \/ handleSaveTrace("rare", "p1")
  \/ handleDeleteTrace("rare", "p1")
  \/ \E cleanupAgeDays \in {0, 1}, cleanupMinCount \in {2, 3}, dryRun \in BOOLEAN :
        handleCleanupOldEncounters(cleanupAgeDays, cleanupMinCount, dryRun)
  \/ \E hardDelete \in BOOLEAN : handleDeleteVocab(1, hardDelete)
  \/ handleUnlockNoiseWord(1)
  \/ Tick

SpecScore == InitScore /\ [][NextScore]_vars

\* ------------------- vocab.ts, encounters.ts: the handlers await by await
\* The router starts a handler for every message as it arrives: a call is
\* suspended at each await and other calls run in between.  One action per
\* await that reads or writes a table; what a call has read is in calls[p].
Hold(p, locals) ==
  /\ calls' = [calls EXCEPT ![p] = locals]
  /\ UNCHANGED last

Finish(p, op, status) ==
  /\ calls' = [calls EXCEPT ![p] = IdleCall]
  /\ last' = Done(op, status)

\* crypto.randomUUID() of the encounter a call adds: an id no row has and no
\* other call in flight is going to use; 0 when the model has none left
FreshEncId ==
  LET taken == DOMAIN encounters \cup {calls[p].encounterId : p \in DOMAIN calls}
  IN IF EncIds \ taken = {} THEN 0 ELSE SetMin(EncIds \ taken)

\* db.vocabulary.update(vocabId, changes): nothing if the row is gone
UpdateScore(voc, vid, score) ==
  IF vid \in DOMAIN voc
  THEN [voc EXCEPT ![vid].familiarityScore = score,
                   ![vid].isKnown = (score >= ScoreCeiling)]
  ELSE voc

\* handleToggleTraceWord, line 329: db.vocabulary.get and the early returns
ToggleGet(p, vid, traced) ==
  /\ calls[p].pc = "idle"
  /\ UNCHANGED <<vocabulary, encounters, traces, settings, now, lemmaStats,
                 userWordbanks, scans>>
  /\ IF vid \notin DOMAIN vocabulary THEN Finish(p, "toggleTrace", "NOT_FOUND")
     ELSE IF vocabulary[vid].hasIsTraced /\ vocabulary[vid].isTraced = traced
     THEN Finish(p, "toggleTrace", "ok")
     ELSE Hold(p, [IdleCall EXCEPT !.pc = "toggleRead", !.vocabId = vid,
                                   !.traced = traced])

\* Lines 341-344: the encounters are read and the new score computed
ToggleRead(p) ==
  LET c == calls[p]
  IN /\ c.pc = "toggleRead"
     /\ Hold(p, [c EXCEPT !.pc = "toggleWrite",
                          !.newScore = calculateWeightedScore(
                                         encounters, c.vocabId,
                                         IF c.traced THEN 2 ELSE 1)])
     /\ UNCHANGED <<vocabulary, encounters, traces, settings, now, lemmaStats,
                    userWordbanks, scans>>

\* Lines 346-351: db.vocabulary.update with isTraced and the score
ToggleWrite(p) ==
  LET c == calls[p]
  IN /\ c.pc = "toggleWrite"
     /\ vocabulary' =
          IF c.vocabId \in DOMAIN vocabulary
          THEN UpdateScore([vocabulary EXCEPT ![c.vocabId].isTraced = c.traced,
                                              ![c.vocabId].hasIsTraced = TRUE],
                           c.vocabId, c.newScore)
          ELSE vocabulary
     /\ Finish(p, "toggleTrace", "ok")
     /\ UNCHANGED <<encounters, traces, settings, now, lemmaStats,
                    userWordbanks, scans>>

\* handleRateWord, lines 261-267: db.vocabulary.get and the checks
RateGet(p, vid, rating) ==
  /\ calls[p].pc = "idle"
  /\ UNCHANGED <<vocabulary, encounters, traces, settings, now, lemmaStats,
                 userWordbanks, scans>>
  /\ IF vid \notin DOMAIN vocabulary THEN Finish(p, "rateWord", "NOT_FOUND")
     ELSE IF vocabulary[vid].scoreLocked
     THEN Finish(p, "rateWord", "VALIDATION_ERROR")
     ELSE /\ FreshEncId # 0
          /\ Hold(p, [IdleCall EXCEPT !.pc = "rateAdd", !.vocabId = vid,
                                      !.source = RateSource(rating),
                                      !.encounterId = FreshEncId, !.day = now,
                                      !.vocab = vocabulary[vid]])

\* Lines 272-282: db.encounters.add
RateAdd(p) ==
  LET c == calls[p]
  IN /\ c.pc = "rateAdd"
     /\ encounters' = Put(encounters, c.encounterId,
                          [vocabId |-> c.vocabId, source |-> c.source,
                           pageUrl |-> "", lemma |-> c.vocab.lemma,
                           createdAt |-> c.day])
     /\ Hold(p, [c EXCEPT !.pc = "rateRead"])
     /\ UNCHANGED <<vocabulary, traces, settings, now, lemmaStats,
                    userWordbanks, scans>>

\* Lines 284-286: the encounters are read; the multiplier is the isTraced of
\* the row read at line 261
RateRead(p) ==
  LET c == calls[p]
  IN /\ c.pc = "rateRead"
     /\ Hold(p, [c EXCEPT !.pc = "rateWrite",
                          !.newScore = calculateWeightedScore(
                                         encounters, c.vocabId,
                                         TraceMultiplier(c.vocab))])
     /\ UNCHANGED <<vocabulary, encounters, traces, settings, now, lemmaStats,
                    userWordbanks, scans>>

\* Lines 288-292: db.vocabulary.update with the score
RateWrite(p) ==
  LET c == calls[p]
  IN /\ c.pc = "rateWrite"
     /\ vocabulary' = UpdateScore(vocabulary, c.vocabId, c.newScore)
     /\ Finish(p, "rateWord", "ok")
     /\ UNCHANGED <<encounters, traces, settings, now, lemmaStats,
                    userWordbanks, scans>>

\* handleRecordEncounter with a vocabId, lines 10-42: the validation and
\* db.vocabulary.get
RecordGet(p, vid, pageUrl, source) ==
  /\ calls[p].pc = "idle"
  /\ UNCHANGED <<vocabulary, encounters, traces, settings, now, lemmaStats,
                 userWordbanks, scans>>
  /\ IF pageUrl = "" THEN Finish(p, "recordEncounter", "VALIDATION_ERROR")
     ELSE IF vid \notin DOMAIN vocabulary \/ vocabulary[vid].deleted
     THEN Finish(p, "recordEncounter", "NOT_FOUND")
     ELSE IF pageUrl \notin Pages
     THEN Finish(p, "recordEncounter", "VALIDATION_ERROR")
     ELSE /\ FreshEncId # 0
          /\ Hold(p, [IdleCall EXCEPT !.pc = "recordDedup", !.vocabId = vid,
                                      !.source = source, !.pageUrl = pageUrl,
                                      !.encounterId = FreshEncId, !.day = now,
                                      !.vocab = vocabulary[vid]])

\* Lines 45-56: the 24-hour dedup of scan, lookup and wordbank encounters
RecordDedup(p) ==
  LET c == calls[p]
      recent == {e \in EncOf(encounters, c.vocabId) :
                   /\ encounters[e].pageUrl = c.pageUrl
                   /\ encounters[e].source = c.source
                   /\ encounters[e].createdAt > c.day - 1}
  IN /\ c.pc = "recordDedup"
     /\ IF c.source \in DedupSources /\ recent # {}
        THEN Finish(p, "recordEncounter", "deduped")
        ELSE Hold(p, [c EXCEPT !.pc = "recordAdd"])
     /\ UNCHANGED <<vocabulary, encounters, traces, settings, now, lemmaStats,
                    userWordbanks, scans>>

\* Lines 58-74: db.encounters.add
RecordAdd(p) ==
  LET c == calls[p]
  IN /\ c.pc = "recordAdd"
     /\ encounters' = Put(encounters, c.encounterId,
                          [vocabId |-> c.vocabId,
                           source |-> StoredSource(c.source),
                           pageUrl |-> c.pageUrl, lemma |-> c.vocab.lemma,
                           createdAt |-> c.day])
     /\ Hold(p, [c EXCEPT !.pc = "recalcGet"])
     /\ UNCHANGED <<vocabulary, traces, settings, now, lemmaStats,
                    userWordbanks, scans>>

\* The await a handleRecordEncounter call reaches after recalcVocabScore
AfterRecalc(p, c) ==
  IF c.source = "lookup" THEN Hold(p, [c EXCEPT !.pc = "recordUnlock"])
  ELSE Finish(p, "recordEncounter", "ok")

\* recalcVocabScore, lines 142-143: db.vocabulary.get and the early return
RecalcGet(p) ==
  LET c == calls[p]
      gone == \/ c.vocabId \notin DOMAIN vocabulary
              \/ vocabulary[c.vocabId].deleted
              \/ vocabulary[c.vocabId].scoreLocked
  IN /\ c.pc = "recalcGet"
     /\ IF gone THEN AfterRecalc(p, c)
        ELSE Hold(p, [c EXCEPT !.pc = "recalcRead",
                               !.vocab = vocabulary[c.vocabId]])
     /\ UNCHANGED <<vocabulary, encounters, traces, settings, now, lemmaStats,
                    userWordbanks, scans>>

\* Lines 144-145: the encounters are read; the multiplier is the isTraced of
\* the row read at line 142
RecalcRead(p) ==
  LET c == calls[p]
  IN /\ c.pc = "recalcRead"
     /\ Hold(p, [c EXCEPT !.pc = "recalcWrite",
                          !.newScore = calculateWeightedScore(
                                         encounters, c.vocabId,
                                         TraceMultiplier(c.vocab))])
     /\ UNCHANGED <<vocabulary, encounters, traces, settings, now, lemmaStats,
                    userWordbanks, scans>>

\* Line 146: db.vocabulary.update with the score
RecalcWrite(p) ==
  LET c == calls[p]
  IN /\ c.pc = "recalcWrite"
     /\ vocabulary' = UpdateScore(vocabulary, c.vocabId, c.newScore)
     /\ AfterRecalc(p, c)
     /\ UNCHANGED <<encounters, traces, settings, now, lemmaStats,
                    userWordbanks, scans>>

\* handleRecordEncounter, lines 79-90: a locked entry with two lookups is
\* unlocked (the reads and the reset of a locked entry taken as one step)
RecordUnlock(p) ==
  LET c == calls[p]
      lookupCount == Cardinality({e \in EncOf(encounters, c.vocabId) :
                                    encounters[e].source = "lookup"})
  IN /\ c.pc = "recordUnlock"
     /\ vocabulary' =
          IF /\ c.vocabId \in DOMAIN vocabulary
             /\ vocabulary[c.vocabId].scoreLocked
             /\ lookupCount >= 2
          THEN resetNoiseWordFields(vocabulary, c.vocabId)
          ELSE vocabulary
     /\ Finish(p, "recordEncounter", "ok")
     /\ UNCHANGED <<encounters, traces, settings, now, lemmaStats,
                    userWordbanks, scans>>

\* SpecToggle: calls of toggleTrace, rateWord and recordEncounter on one
\* entry, from two callers, each call suspended and resumed at its awaits.
\* The store holds the entry of 'rare' a lookup on p1 created: score 1.
InitToggle ==
  /\ vocabulary = (1 :> ScoreEntry("looked"))
  /\ encounters = ScoreEncounters("looked")
  /\ traces = {}
  /\ settings = DefaultSettings
  /\ now = 0
  /\ last = Done("init", "ok")
  /\ lemmaStats = <<>>
  /\ userWordbanks = {}
  /\ scans = [p \in Procs |-> IdleScan]
  /\ calls = [p \in Procs |-> IdleCall]

NextToggle ==
  \/ \E p \in Procs, t \in BOOLEAN : ToggleGet(p, 1, t)
  \/ \E p \in Procs : ToggleRead(p)
  \/ \E p \in Procs : ToggleWrite(p)
  \/ \E p \in Procs : RateGet(p, 1, "known")
  \/ \E p \in Procs : RateAdd(p)
  \/ \E p \in Procs : RateRead(p)
  \/ \E p \in Procs : RateWrite(p)
  \/ \E p \in Procs, pageUrl \in {"p1", "p2"} : RecordGet(p, 1, pageUrl, "lookup")
  \/ \E p \in Procs : RecordDedup(p)
  \/ \E p \in Procs : RecordAdd(p)
  \/ \E p \in Procs : RecalcGet(p)
  \/ \E p \in Procs : RecalcRead(p)
  \/ \E p \in Procs : RecalcWrite(p)
  \/ \E p \in Procs : RecordUnlock(p)

SpecToggle == InitToggle /\ [][NextToggle]_vars

\* SpecPromote: page scans one after the other (one caller), each stepping
\* through its awaits, with promotion after two occurrences on two pages.
\* The store is empty: either the noise configuration is empty, or the user
\* put 'apple' on the manual add-list or chose wb_noise as the noise wordbank
\* (without enabling it for scans), and then deleted the entries the
\* reconciliation had created.
PromoteSettings == [ScanSettings EXCEPT !.promotionMinPages = 2]

PromoteNoiseConfigs ==
  {[sourceWordbankId |-> "", add |-> {}, remove |-> {}],
   [sourceWordbankId |-> "", add |-> {"apple"}, remove |-> {}],
   [sourceWordbankId |-> "wb_noise", add |-> {}, remove |-> {}]}

InitPromote ==
  \E cfg \in PromoteNoiseConfigs :
    /\ vocabulary = <<>>
    /\ encounters = <<>>
    /\ traces = {}
    /\ settings = [PromoteSettings EXCEPT
                     !.noiseWordbankId = cfg.sourceWordbankId,
                     !.noiseManualAdd = cfg.add,
                     !.noiseManualRemove = cfg.remove,
                     !.noiseConfigHash = <<cfg>>]
    /\ now = 0
    /\ last = Done("init", "ok")
    /\ lemmaStats = <<>>
    /\ userWordbanks = {"wb_cet4"}
    /\ scans = [p \in Procs |-> IdleScan]
    /\ calls = [p \in Procs |-> IdleCall]

\* The pages scanned: 'rare' once on each of two pages, 'apple' on one, 'the'
\* on one
PromoteInputs ==
  {[tokenMap |-> ("rare" :> 1), pageUrl |-> "p1"],
   [tokenMap |-> ("rare" :> 1), pageUrl |-> "p2"],
   [tokenMap |-> ("apple" :> 1), pageUrl |-> "p1"],
   [tokenMap |-> ("the" :> 1), pageUrl |-> "p1"]}

NextPromote ==
  \E p \in {"tab1"} :
    \/ \E i \in PromoteInputs, record \in BOOLEAN :
          /\ \A l \in DOMAIN lemmaStats : lemmaStats[l].totalCount < MaxCount
          /\ ScanStart(p, i.tokenMap, i.pageUrl, record)
    \/ ScanReadStats(p)
    \/ ScanAddStats(p)
    \/ ScanPutStats(p)
    \/ ScanPromote(p)
    \/ ScanAddVocab(p)
    \/ ScanWordbankLayer(p)
    \/ ScanPersist(p)
    \/ ScanRecord(p)
    \/ ScanAutoTraceRead(p)
    \/ ScanAutoTraceWrite(p)

SpecPromote == InitPromote /\ [][NextPromote]_vars

\* ------------------------------------------------------------ wordbanks.ts
\* handleUpsertUserWordbanks with one selection: the row of the wordbank is
\* added or updated with the `enabled` asked for
handleUpsertUserWordbanks(wordbankId, enabled) ==
  /\ userWordbanks' = IF enabled THEN userWordbanks \cup {wordbankId}
                      ELSE userWordbanks \ {wordbankId}
  /\ last' = Done("upsertUserWordbanks", "ok")
  /\ UNCHANGED <<vocabulary, encounters, traces, settings, now, lemmaStats,
                 scans, calls>>

\* SpecGate: page scans one after the other (one caller), each stepping
\* through its awaits, on pages that hold words the dictionary gate lets
\* through next to words it stops; between two scans the user enables or
\* disables the wordbank wb_cet4.  'qq' is not in the dictionary.
GateInputs ==
  {[tokenMap |-> ("the" :> 1) @@ ("rare" :> 1), pageUrl |-> "p1"],
   [tokenMap |-> ("qq" :> 1) @@ ("apple" :> 1), pageUrl |-> "p2"]}

InitGate ==
  /\ vocabulary = <<>>
  /\ encounters = <<>>
  /\ traces = {}
  /\ settings = ScanSettings
  /\ now = 0
  /\ last = Done("init", "ok")
  /\ lemmaStats = <<>>
  /\ userWordbanks = {}
  /\ scans = [p \in Procs |-> IdleScan]
  /\ calls = [p \in Procs |-> IdleCall]

NextGate ==
  \/ \E enabled \in BOOLEAN :
        /\ scans["tab1"].pc = "idle"
        /\ handleUpsertUserWordbanks("wb_cet4", enabled)
  \/ \E p \in {"tab1"} :
        \/ \E i \in GateInputs, record \in BOOLEAN :
              /\ \A l \in DOMAIN lemmaStats : lemmaStats[l].totalCount < MaxCount
              /\ ScanStart(p, i.tokenMap, i.pageUrl, record)
        \/ ScanReadStats(p)
        \/ ScanAddStats(p)
        \/ ScanPutStats(p)
        \/ ScanPromote(p)
        \/ ScanAddVocab(p)
        \/ ScanWordbankLayer(p)
        \/ ScanPersist(p)
        \/ ScanRecord(p)
        \/ ScanAutoTraceRead(p)
        \/ ScanAutoTraceWrite(p)

SpecGate == InitGate /\ [][NextGate]_vars

\* SpecWeight: Encounter insertions (recordEncounter with every source tag,
\* on two pages, and rateWord with every rating), one call at a time, on one
\* entry whose isTraced never changes.  The tags are those of the weight
\* table, 'other' (in no table) and 'constructor', and "" for a call that
\* gives no source.  The entry is of one of
\* these kinds:
\*   fresh    no encounter yet, score 0
\*   traced   traced by the user, no encounter yet, score 0
\*   example  traced, 5 trace encounters and 1 scan encounter:
\*            score (1.0 * 5 + 0.1 * 1) * 2 = 10.2
\*   noise    an entry of 'the', locked by the noise reconciliation: score 100
WeightTags == DOMAIN SCORING_WEIGHTS \cup {"other", "constructor"}

WeightKinds == {"fresh", "traced", "example", "noise"}

WeightEntry(kind) ==
  LET fresh == VocabEntity("rare", FALSE, "none", 0)
      traced == [fresh EXCEPT !.isTraced = TRUE, !.hasIsTraced = TRUE]
  IN CASE kind = "fresh" -> fresh
       [] kind = "traced" -> traced
       [] kind = "example" -> [traced EXCEPT !.familiarityScore = 102]
       [] OTHER -> VocabEntity("the", TRUE, "none", 0)

\* The history of the entry: rows 11, 12, ... so that the rows a handler adds
\* take the ids from 1 on
WeightEncounters(kind) ==
  IF kind = "example"
  THEN [e \in 11..16 |->
          [vocabId |-> 1, source |-> IF e = 16 THEN "scan" ELSE "trace",
           pageUrl |-> "p1", lemma |-> "rare", createdAt |-> 0]]
  ELSE <<>>

InitWeight ==
  \E kind \in WeightKinds :
    /\ vocabulary = (1 :> WeightEntry(kind))
    /\ encounters = WeightEncounters(kind)
    /\ traces = IF kind = "example" THEN {<<"rare", "p1">>} ELSE {}
    /\ settings = IF kind = "noise"
                  THEN [DefaultSettings EXCEPT
                          !.noiseWordbankId = "wb_noise",
                          !.noiseConfigHash =
                             <<[sourceWordbankId |-> "wb_noise", add |-> {},
                                remove |-> {}]>>]
                  ELSE DefaultSettings
    /\ now = 0
    /\ last = Done("init", "ok")
    /\ lemmaStats = <<>>
    /\ userWordbanks = {}
    /\ scans = [p \in Procs |-> IdleScan]
    /\ calls = [p \in Procs |-> IdleCall]

NextWeight ==
  \/ \E source \in WeightTags \cup {""}, pageUrl \in Pages :
        handleRecordEncounter(1, "", pageUrl, source)
  \/ \E rating \in {"known", "familiar", "unknown"} : handleRateWord(1, rating)
  \/ \E traced \in BOOLEAN : handleToggleTraceWord(1, traced)

SpecWeight == InitWeight /\ [][NextWeight]_vars

\* SpecOwner: the handlers that add or delete encounters and vocabulary
\* rows, one call at a time: calls on the entry of 'rare' and on the word,
\* and page scans (one caller) stepping through their awaits, no other call
\* starting while a scan is in flight.  The user enabled the wordbank wb_cet4
\* and lowered the promotion thresholds; the entry and its LemmaStat were
\* written MaxDay days ago.
InitOwner ==
  \E kind \in ScoreKinds :
    /\ vocabulary = (1 :> ScoreEntry(kind))
    /\ encounters = ScoreEncounters(kind)
    /\ traces = {}
    /\ settings = ScanSettings
    /\ now = MaxDay
    /\ last = Done("init", "ok")
    /\ lemmaStats = ("rare" :> LemmaStatEntity(1, "p1", FALSE, 0))
    /\ userWordbanks = {"wb_cet4"}
    /\ scans = [p \in Procs |-> IdleScan]
    /\ calls = [p \in Procs |-> IdleCall]

OwnerInputs ==
  {[tokenMap |-> ("rare" :> 1), pageUrl |-> "p2"],
   [tokenMap |-> ("apple" :> 1), pageUrl |-> "p1"]}

NextOwner ==
  \/ /\ scans["tab1"].pc = "idle"
     /\ \/ handleRecordEncounter(1, "", "p1", "lookup")
        \/ handleRecordEncounter(0, "rare", "p2", "lookup")
        \/ handleRateWord(1, "known")
        \/ \E e \in {1, 11} : handleDeleteEncounter(e)
        \/ \E hardDelete \in BOOLEAN : handleDeleteVocab(1, hardDelete)
        \/ handleCleanupOldEncounters(1, 3, FALSE)
  \/ \E i \in OwnerInputs, record \in BOOLEAN :
        /\ \A l \in DOMAIN lemmaStats : lemmaStats[l].totalCount < MaxCount
        /\ ScanStart("tab1", i.tokenMap, i.pageUrl, record)
  \/ \E p \in {"tab1"} :
        \/ ScanReadStats(p)
        \/ ScanAddStats(p)
        \/ ScanPutStats(p)
        \/ ScanPromote(p)
        \/ ScanAddVocab(p)
        \/ ScanWordbankLayer(p)
        \/ ScanPersist(p)
        \/ ScanRecord(p)
        \/ ScanAutoTraceRead(p)
        \/ ScanAutoTraceWrite(p)

SpecOwner == InitOwner /\ [][NextOwner]_vars

\* =========================================================================
\* Claims

\* C1: after every mutating operation every VocabularyEntry satisfies
\* isKnown == (familiarityScore >= 100).
C1_IsKnownMatchesScore ==
  \A v \in DOMAIN vocabulary :
    vocabulary[v].isKnown = (vocabulary[v].familiarityScore >= ScoreCeiling)

\* C2: in every reachable state no VocabularyEntry has scoreLocked = true
\* and isTraced = true at the same time.
C2_NeverLockedAndTraced ==
  \A v \in DOMAIN vocabulary :
    ~(vocabulary[v].scoreLocked /\ vocabulary[v].isTraced)

\* C3: for every (lemma, language) pair at most one non-deleted
\* VocabularyEntry exists in every reachable state, for every interleaving
\* of concurrent scans.  (Every entry of the model has language 'en'.)
C3_OneEntryPerLemma ==
  \A a, b \in DOMAIN vocabulary :
    (/\ ~vocabulary[a].deleted /\ ~vocabulary[b].deleted
     /\ vocabulary[a].lemma = vocabulary[b].lemma) => a = b

\* C4: once a LemmaStat's promotedVocabId is set, no step of any scan
\* changes it to a different id or clears it.
C4_PromotedOnce ==
  [][\A l \in DOMAIN lemmaStats :
       lemmaStats[l].promotedVocabId # 0 =>
         /\ l \in DOMAIN lemmaStats'
         /\ lemmaStats'[l].promotedVocabId = lemmaStats[l].promotedVocabId]_vars

\* C5: at every point during a scan and after it returns, with record true
\* or false, every LemmaStat whose promotedVocabId is set refers to a
\* VocabularyEntry that exists in the store.
C5_PromotedEntryExists ==
  \A l \in DOMAIN lemmaStats :
    lemmaStats[l].promotedVocabId # 0 =>
      lemmaStats[l].promotedVocabId \in DOMAIN vocabulary

\* C6: every entry with scoreLocked = true has familiarityScore = 100 and
\* isKnown = true in every reachable state.
C6_LockedAtCeiling ==
  \A v \in DOMAIN vocabulary :
    vocabulary[v].scoreLocked =>
      /\ vocabulary[v].familiarityScore = ScoreCeiling
      /\ vocabulary[v].isKnown

\* --- review draws: `last` holds the draw just completed; no action of
\* SpecDraw changes the store, so the store of a state is the store the draw
\* read.
DrawDone == last.op = "drawCard"

RecomputedScore(v) ==
  calculateWeightedScore(encounters, v, TraceMultiplier(vocabulary[v]))

\* The entries a draw with the given excludeIds may return
EligibleFor(excludeIds) ==
  {v \in DOMAIN vocabulary :
     /\ ~vocabulary[v].deleted
     /\ ~vocabulary[v].scoreLocked
     /\ ~vocabulary[v].isKnown
     /\ RecomputedScore(v) < ScoreCeiling
     /\ v \notin excludeIds}

CardSet == {last.cards[i] : i \in 1..Len(last.cards)}

\* C7: for every store, count N >= 0, excludeIds and both modes a draw
\* returns exactly min(N, eligibleCount) cards, never more than N, and no
\* vocabId twice.
C7_DrawCount ==
  DrawDone =>
    /\ Len(last.cards) = Min2(last.count, Cardinality(EligibleFor(last.excludeIds)))
    /\ Len(last.cards) <= last.count
    /\ \A i, j \in 1..Len(last.cards) : last.cards[i] = last.cards[j] => i = j

\* a sampled draw that had to leave an eligible entry out
C7_Witness ==
  /\ DrawDone
  /\ last.mode = "shuffle"
  /\ last.count = 2
  /\ Len(last.cards) = 2
  /\ Cardinality(EligibleFor(last.excludeIds)) = 3

\* C8: a draw never returns an entry that is soft-deleted, scoreLocked,
\* known (stored isKnown, or recomputed score >= 100) or in excludeIds.
C8_DrawExcludes ==
  DrawDone =>
    \A v \in CardSet :
      /\ v \in DOMAIN vocabulary
      /\ ~vocabulary[v].deleted
      /\ ~vocabulary[v].scoreLocked
      /\ ~vocabulary[v].isKnown
      /\ RecomputedScore(v) < ScoreCeiling
      /\ v \notin last.excludeIds

\* a draw that returned a card while the store held an entry stored as not
\* known whose recomputed score is 100, and an excluded id that was
\* otherwise eligible
C8_Witness ==
  /\ DrawDone
  /\ Len(last.cards) >= 1
  /\ \E v \in DOMAIN vocabulary :
        /\ v \in DrawCandidates(vocabulary)
        /\ RecomputedScore(v) >= ScoreCeiling
  /\ last.excludeIds \cap EligibleFor({}) # {}

SameCall(a, b) ==
  /\ a.count = b.count /\ a.mode = b.mode
  /\ a.excludeIds = b.excludeIds /\ a.seed = b.seed

\* C9 as stated: two draws in mode 'shuffle' with the same seed, count and
\* excludeIds on the same store return the same vocabIds in the same order,
\* whatever the time elapsed between the two calls.
C9_SameSeedAnyTime ==
  [][(/\ DrawDone /\ last'.op = "drawCard"
      /\ last'.mode = "shuffle" /\ last'.seed # NoSeed
      /\ SameCall(last, last'))
     => last'.cards = last.cards]_vars

\* C9, amended: two draws in mode 'shuffle' with the same seed, count and
\* excludeIds on the same store, both reading the same clock value, return
\* the same vocabIds in the same order.
C9_SameSeedSameClock ==
  [][(/\ DrawDone /\ last'.op = "drawCard"
      /\ last'.mode = "shuffle" /\ last'.seed # NoSeed
      /\ SameCall(last, last')
      /\ last'.at = last.at)
     => last'.cards = last.cards]_vars

\* a seeded sampled draw of two cards, made twice in a row at one clock value
C9_Witness ==
  /\ DrawDone
  /\ last.mode = "shuffle"
  /\ last.seed # NoSeed
  /\ last.repeated
  /\ Len(last.cards) >= 2

\* priority of an entry at the clock the last draw read
PriorityAt(v) == Priority(vocabulary[v], RecomputedScore(v), last.at)

\* a comes before b: higher priority, or equal priority and lower id
RanksBefore(a, b) ==
  \/ PriorityAt(a) > PriorityAt(b)
  \/ PriorityAt(a) = PriorityAt(b) /\ a < b

SyncStep ==
  /\ last'.op \in {"initNoiseWords", "updateSettings"}
  /\ last'.status = "ok"

\* C11: a syncNoiseWords call made when the noise configuration is the one
\* of the previous sync (the stored hash) writes nothing to any table, also
\* when it comes through the settings update or the initialization.
C11_UnchangedSyncWritesNothing ==
  [][(/\ last'.op \in {"initNoiseWords", "updateSettings"}
      /\ NoiseConfig(settings') = NoiseConfig(settings)
      /\ settings.noiseConfigHash = <<NoiseConfig(settings)>>)
     => /\ vocabulary' = vocabulary
        /\ settings' = settings]_vars

\* The fields of an entry the reconciliation holds locked
LockedAsNoise(v) ==
  /\ v.scoreLocked /\ v.noiseManaged
  /\ v.familiarityScore = ScoreCeiling /\ v.isKnown

\* The fields of an entry the reconciliation released
ReleasedFromNoise(v) ==
  /\ ~v.scoreLocked /\ ~v.noiseManaged
  /\ v.familiarityScore = 0 /\ ~v.isKnown

\* C12: after a syncNoiseWords call every lemma of the target set has an
\* entry which, if not traced, is locked at score 100, known and owned by
\* the reconciliation; and every owned locked entry whose lemma is not in the
\* target set is unlocked to score 0, not known, not locked, not owned.
C12_SyncReachesTarget ==
  [][SyncStep =>
       /\ \A l \in NoiseTarget(settings') :
            /\ FirstByLemma(vocabulary', l) # 0
            /\ LET v == vocabulary'[FirstByLemma(vocabulary', l)]
               IN ~v.isTraced => LockedAsNoise(v)
       /\ \A id \in DOMAIN vocabulary :
            (/\ vocabulary[id].scoreLocked /\ vocabulary[id].noiseManaged
             /\ vocabulary[id].lemma \notin NoiseTarget(settings'))
            => /\ id \in DOMAIN vocabulary'
               /\ ReleasedFromNoise(vocabulary'[id])]_vars

\* C13: syncNoiseWords never changes scoreLocked, in either direction, on an
\* entry whose isTraced is true, in the target set or not.
C13_SyncLeavesTracedLock ==
  [][SyncStep =>
       \A id \in DOMAIN vocabulary :
         vocabulary[id].isTraced =>
           /\ id \in DOMAIN vocabulary'
           /\ vocabulary'[id].scoreLocked = vocabulary[id].scoreLocked]_vars

\* --- auto-trace pool
\* The active traced entries: isTraced, not known, not deleted
ActiveTraced(voc) ==
  {v \in DOMAIN voc : voc[v].isTraced /\ ~voc[v].isKnown /\ ~voc[v].deleted}

\* A step in which a scan writes the entries its replenishment picked
ReplenishStep ==
  \E p \in Procs : scans[p].pc = "traceWrite" /\ scans'[p].pc = "idle"

\* C14: a replenishment never raises the number of active traced entries
\* above autoTracePoolSize: at most poolSize before, at most poolSize after,
\* in every interleaving of scans, two concurrent scans included.
C14_PoolNeverOverfilled ==
  [][(/\ ReplenishStep
      /\ Cardinality(ActiveTraced(vocabulary)) <= settings.autoTracePoolSize)
     => Cardinality(ActiveTraced(vocabulary')) <= settings.autoTracePoolSize]_vars

\* C15: the active traced pool loses a member only when the entry's score
\* crosses the known threshold or toggleTrace(vocabId, false) is called: no
\* scan, replenishment, encounter deletion, trace deletion or reconciliation
\* sets isTraced of an entry from true to false.
C15_PoolShrinksByMasteryOrUntrace ==
  [][\A v \in ActiveTraced(vocabulary) :
       (v \in DOMAIN vocabulary' /\ v \notin ActiveTraced(vocabulary'))
       => \/ last'.op = "toggleTrace"
          \/ /\ vocabulary'[v].isTraced
             /\ vocabulary'[v].familiarityScore >= ScoreCeiling]_vars

\* --- score recompute
\* The score of the entry's current encounters under its current isTraced
ScoreNow(voc, enc, v) == calculateWeightedScore(enc, v, TraceMultiplier(voc[v]))

\* C16: after each of recordEncounter (when a new Encounter is stored),
\* deleteEncounter, cleanupStale, rateWord and toggleTrace completes, the
\* stored familiarityScore of a non-locked, non-deleted entry equals the
\* score of all its current encounters with traced = its current isTraced.
C16_ScoreRecomputed ==
  [][(/\ last'.op \in {"recordEncounter", "deleteEncounter",
                       "cleanupOldEncounters", "rateWord", "toggleTrace"}
      /\ last'.status = "ok")
     => \A v \in DOMAIN vocabulary' :
          (~vocabulary'[v].scoreLocked /\ ~vocabulary'[v].deleted)
          => vocabulary'[v].familiarityScore
               = ScoreNow(vocabulary', encounters', v)]_vars

\* C17: isKnown of an entry changes from true to false only through an
\* explicit reset or a noise unlock: no recordEncounter, rateWord, scan,
\* toggleTrace, deleteEncounter or deleteTrace turns a known entry into a
\* not-known one.
C17_KnownStaysKnown ==
  [][\A v \in DOMAIN vocabulary :
       (/\ vocabulary[v].isKnown
        /\ v \in DOMAIN vocabulary'
        /\ ~vocabulary'[v].isKnown)
       => last'.op \notin {"recordEncounter", "rateWord", "scanPageWords",
                           "toggleTrace", "deleteEncounter", "deleteTrace"}]_vars

\* No call of toggleTrace, rateWord or recordEncounter is in flight
Quiescent == \A p \in Procs : calls[p].pc = "idle"

\* C18: toggleTrace with its recompute is atomic with respect to concurrent
\* recordEncounter and rateWord on the same entry: in every interleaving,
\* once all the calls have completed, the stored familiarityScore equals the
\* score of all the encounters of the entry with traced = its final
\* isTraced, and isKnown matches it.
C18_ToggleAtomic ==
  Quiescent =>
    \A v \in DOMAIN vocabulary :
      /\ vocabulary[v].familiarityScore = ScoreNow(vocabulary, encounters, v)
      /\ vocabulary[v].isKnown = (vocabulary[v].familiarityScore >= ScoreCeiling)

\* --- LemmaStat aggregation
\* The lemmas whose LemmaStat rows the scan p is about to write
StatsWritten(p) ==
  IF scans[p].pc = "addStats" THEN scans[p].statsToAdd
  ELSE IF scans[p].pc = "putStats" THEN scans[p].statsToUpdate
  ELSE {}

\* totalCount of the stored row of a lemma, 0 without a row
StoredCount(stats, l) == IF l \in DOMAIN stats THEN stats[l].totalCount ELSE 0

\* C19: the read-modify-write of a LemmaStat is serialized per lemma: when
\* two scans holding the same qualifying lemma run concurrently, in every
\* interleaving both complete without error and every write of a scan adds
\* the occurrences the scan counted to the total stored so far, so that the
\* final totalCount is the prior one plus the occurrences of both scans.
C19_StatsSerialized ==
  [][/\ last'.status # "ConstraintError"
     /\ \A p \in Procs :
          scans'[p] # scans[p] =>
            \A l \in StatsWritten(p) :
              StoredCount(lemmaStats', l)
                = StoredCount(lemmaStats, l) + scans[p].qualifiedTokens[l]]_vars

\* --- promotion
\* The promotion trigger on a LemmaStat row
AtThreshold(stat, prefs) ==
  /\ stat.totalCount >= prefs.promotionMinCount
  /\ stat.pageCount >= prefs.promotionMinPages

\* The scan of caller p is not between its aggregation and the end of its
\* promotions
PromotionsDone(p) ==
  scans[p].pc \in {"idle", "layer1", "persist", "record", "autoTrace",
                   "traceWrite"}

ScanReturns(p) ==
  /\ scans[p].pc # "idle"
  /\ scans'[p].pc = "idle"
  /\ last'.status = "ok"

\* The words of an enabled wordbank that the scan of caller p found on its
\* page
WordbankWordsOnPage(p) ==
  DOMAIN scans[p].qualifiedTokens \cap DOMAIN scans[p].wordbankWords

\* C21: a word of an enabled wordbank that is on the scanned page and has no
\* VocabularyEntry has one in the store when the scan returns, whatever its
\* totalCount and pageCount and whatever the record flag of the scan.
C21_WordbankWordPersisted ==
  [][\A p \in Procs :
       ScanReturns(p) =>
         \A l \in WordbankWordsOnPage(p) : FirstByLemma(vocabulary', l) # 0]_vars

\* C22: an entry a scan's promotion newly creates (threshold or wordbank
\* path) is created with scoreLocked = true, familiarityScore = 100 and
\* isKnown = true if and only if its lemma is in the noise target set that
\* syncNoiseWords would compute from the same settings; otherwise it is
\* created with score 0.
C22_NewEntryLockedIffNoise ==
  [][\A v \in DOMAIN vocabulary' \ DOMAIN vocabulary :
       LET e == vocabulary'[v]
       IN IF e.lemma \in NoiseTarget(settings)
          THEN e.scoreLocked /\ e.familiarityScore = ScoreCeiling /\ e.isKnown
          ELSE ~e.scoreLocked /\ e.familiarityScore = 0 /\ ~e.isKnown]_vars

\* C23: for each qualifying token of a scan the lemma's totalCount increases
\* by the occurrences counted, and its pageCount increases by one only if
\* the last recorded page URL of the lemma differs from the URL of the
\* scanned page; a first sighting creates the LemmaStat with pageCount 1, and
\* a scan of the same page again never increases pageCount.  No other step
\* changes a count.
C23_CountsPerScan ==
  [][/\ \A p \in Procs :
          scans'[p] # scans[p] =>
            \A l \in StatsWritten(p) :
              LET count == scans[p].qualifiedTokens[l]
              IN /\ lemmaStats'[l].lastPageUrl = scans[p].pageUrl
                 /\ IF l \in DOMAIN lemmaStats
                    THEN /\ lemmaStats'[l].totalCount
                              = lemmaStats[l].totalCount + count
                         /\ lemmaStats'[l].pageCount
                              = lemmaStats[l].pageCount
                                + (IF lemmaStats[l].lastPageUrl # scans[p].pageUrl
                                   THEN 1 ELSE 0)
                    ELSE /\ lemmaStats'[l].totalCount = count
                         /\ lemmaStats'[l].pageCount = 1
     /\ \A l \in DOMAIN lemmaStats :
          (\A p \in Procs : scans'[p] # scans[p] => l \notin StatsWritten(p))
          => /\ l \in DOMAIN lemmaStats'
             /\ lemmaStats'[l].totalCount = lemmaStats[l].totalCount
             /\ lemmaStats'[l].pageCount = lemmaStats[l].pageCount]_vars

\* 'rare' was counted by two scans of the same page, one after the other:
\* two occurrences on one page
C23_Witness ==
  /\ scans["tab1"].pc = "layer1"
  /\ "rare" \in DOMAIN lemmaStats
  /\ lemmaStats["rare"].totalCount = 2
  /\ lemmaStats["rare"].pageCount = 1
  /\ lemmaStats["rare"].lastPageUrl = scans["tab1"].pageUrl

\* --- dictionary gate
\* The lemma is a word of a currently enabled wordbank, or has a dictionary
\* entry of rank >= environmentRankThreshold (every dictionary entry has a
\* rank: parseDictionary skips the lines without one)
PassesGate(l) ==
  \/ \E b \in userWordbanks \cap DOMAIN WORDBANK_DATA : l \in WORDBANK_DATA[b]
  \/ /\ l \in DOMAIN DICTIONARY
     /\ DICTIONARY[l] >= settings.environmentRankThreshold

\* C24: a scan creates or updates a LemmaStat for a token only if the token
\* is a word of a currently enabled wordbank or has a dictionary entry whose
\* rank is undefined or >= environmentRankThreshold; no other token changes
\* any LemmaStat, and no scan removes one.
C24_OnlyGatedTokens ==
  [][/\ DOMAIN lemmaStats \subseteq DOMAIN lemmaStats'
     /\ \A l \in DOMAIN lemmaStats' :
          (l \notin DOMAIN lemmaStats \/ lemmaStats'[l] # lemmaStats[l])
          => PassesGate(l)]_vars

\* with no wordbank enabled a scan of the page that holds 'the' (rank 1) and
\* 'rare' (rank 5000) has stored a LemmaStat for 'rare' alone
C24_Witness ==
  /\ scans["tab1"].pc = "layer1"
  /\ scans["tab1"].pageUrl = "p1"
  /\ userWordbanks = {}
  /\ DOMAIN lemmaStats = {"rare"}

\* --- the scoring function
\* The weight table of the claim, in tenths
TableWeight(tag) ==
  CASE tag = "scan" -> 1
    [] tag = "lookup" -> 10
    [] tag = "trace" -> 10
    [] tag = "manual" -> 20
    [] tag = "import" -> 5
    [] tag = "wordbank" -> 1
    [] tag = "rate_known" -> 50
    [] tag = "rate_familiar" -> 30
    [] tag = "rate_unknown" -> 10
    [] OTHER -> 1

RECURSIVE TableSum(_, _)
TableSum(enc, ids) ==
  IF ids = {} THEN 0
  ELSE LET e == CHOOSE x \in ids : TRUE
       IN TableWeight(enc[e].source) + TableSum(enc, ids \ {e})

\* The encounters of entry v with the given source tag
Tagged(v, tag) == {e \in EncOf(encounters, v) : encounters[e].source = tag}

\* C25: score(encounters, traced) is the sum over the encounters of
\* weight(tag) * (2 if traced else 1) with the fixed weight table and 0.1
\* for any unknown tag, is never negative, and for 5 trace + 1 scan
\* encounters with traced = true it is 10.2, below the known threshold.
C25_ScoreIsWeightedSum ==
  \A v \in DOMAIN vocabulary :
    /\ \A traced \in BOOLEAN :
         LET multiplier == IF traced THEN 2 ELSE 1
             score == calculateWeightedScore(encounters, v, multiplier)
         IN /\ score = TableSum(encounters, EncOf(encounters, v)) * multiplier
            /\ score >= 0
    /\ (/\ Cardinality(Tagged(v, "trace")) = 5
        /\ Cardinality(Tagged(v, "scan")) = 1
        /\ Cardinality(EncOf(encounters, v)) = 6)
       => /\ calculateWeightedScore(encounters, v, 2) = 102
          /\ ~(calculateWeightedScore(encounters, v, 2) >= ScoreCeiling)

\* A step that inserted an Encounter of entry v and left its isTraced alone
InsertionOn(v) ==
  /\ v \in DOMAIN vocabulary /\ v \in DOMAIN vocabulary'
  /\ EncOf(encounters, v) \subseteq EncOf(encounters', v)
  /\ EncOf(encounters', v) # EncOf(encounters, v)
  /\ vocabulary'[v].isTraced = vocabulary[v].isTraced

\* C26: for every sequence of Encounter insertions on an entry whose isTraced
\* stays constant, the score of the entry after each insertion is greater
\* than or equal to its score before it.
C26_ScoreMonotone ==
  [][\A v \in VocabIds :
       InsertionOn(v) =>
         /\ vocabulary'[v].familiarityScore # NaN
         /\ vocabulary'[v].familiarityScore >= vocabulary[v].familiarityScore]_vars

\* --- the 24-hour de-duplication of recordEncounter
\* An Encounter of the same entry, page and source tag as e, created less
\* than a day before the clock of the state
RecentTwin(e) ==
  \E f \in DOMAIN encounters :
    /\ encounters[f].vocabId = e.vocabId
    /\ encounters[f].pageUrl = e.pageUrl
    /\ encounters[f].source = e.source
    /\ encounters[f].createdAt > now - 1

\* C27: recordEncounter de-duplicates per source within a 24-hour window: a
\* call for the same entry, the same page URL and the same source less than
\* 24 hours after an earlier one stores no new Encounter and leaves the
\* entry's score unchanged, for every source tag.
C27_DedupEverySource ==
  [][last'.op = "recordEncounter" =>
       /\ \A e \in DOMAIN encounters' \ DOMAIN encounters :
            ~RecentTwin(encounters'[e])
       /\ last'.status = "deduped" =>
            /\ encounters' = encounters
            /\ vocabulary' = vocabulary]_vars

\* --- orphan cleanup
\* C28: an entry is hard-deleted by the orphan cleanup, after deleteEncounter
\* or during cleanupStale, only if it has no remaining Encounters and is not
\* manual, not traced and not score-locked.
C28_OrphanCleanupSpares ==
  [][last'.op \in {"deleteEncounter", "cleanupOldEncounters"} =>
       \A v \in DOMAIN vocabulary \ DOMAIN vocabulary' :
         /\ EncOf(encounters', v) = {}
         /\ vocabulary[v].sourceType # "manual"
         /\ ~vocabulary[v].isTraced
         /\ ~vocabulary[v].scoreLocked]_vars

\* --- operations on ids that do not exist
\* No table changes in the step
TablesUnchanged ==
  UNCHANGED <<vocabulary, encounters, traces, lemmaStats, settings, userWordbanks>>

\* C29: a delete operation (deleteEncounter, deleteVocab, deleteTrace) on an
\* id that does not exist returns success and changes no table; a non-delete
\* operation on a missing vocab id (rateWord, toggleTrace, unlockNoiseWord,
\* recordEncounter by vocabId) fails with NOT_FOUND and changes nothing.
\* (The calls of SpecScore are on vocabId 1, the encounter ids 1, 11 and 12
\* and the trace of 'rare' on p1.)
C29_MissingIds ==
  [][/\ (last'.op = "deleteVocab" /\ 1 \notin DOMAIN vocabulary)
        => (last'.status = "ok" /\ TablesUnchanged)
     /\ (last'.op = "deleteEncounter" /\ DOMAIN encounters \cap {1, 11, 12} = {})
        => (last'.status = "ok" /\ TablesUnchanged)
     /\ (last'.op = "deleteTrace" /\ <<"rare", "p1">> \notin traces)
        => (last'.status = "ok" /\ TablesUnchanged)
     /\ (/\ last'.op \in {"rateWord", "toggleTrace", "unlockNoiseWord",
                          "recordEncounter"}
         /\ 1 \notin DOMAIN vocabulary)
        => (last'.status = "NOT_FOUND" /\ TablesUnchanged)]_vars

\* --- dry run of the cleanup
\* What a cleanup with ageDays <= 1 and minCount >= 2 at this moment finds
\* to delete: stale LemmaStats and old encounters of their lemmas
StaleNow ==
  \E l \in DOMAIN lemmaStats, e \in DOMAIN encounters :
     /\ lemmaStats[l].lastSeenAt < now - 1
     /\ lemmaStats[l].totalCount < 2
     /\ lemmaStats[l].promotedVocabId = 0
     /\ encounters[e].createdAt < now - 1
     /\ encounters[e].lemma = l

\* C30: a cleanup with dryRun = true leaves the encounters, the LemmaStats
\* and the vocabulary entries unchanged, in every store state and for every
\* ageDays and minCount.
C30_DryRunWritesNothing ==
  [][(last'.op = "cleanupOldEncounters" /\ last'.status = "dryRun")
       => UNCHANGED <<encounters, lemmaStats, vocabulary>>]_vars

\* A dry run has returned in a store where a real run deletes rows
C30_Witness ==
  /\ last = Done("cleanupOldEncounters", "dryRun")
  /\ StaleNow

\* C31: on the same store and with the same parameters, a cleanup with
\* dryRun = true reports the same deletedEncounters, deletedLemmaStats and
\* deletedVocabulary as the run with dryRun = false, which deletes them.
C31_DryRunReportsSame ==
  \A cleanupAgeDays \in {0, 1}, cleanupMinCount \in {2, 3} :
     CleanupResult(cleanupAgeDays, cleanupMinCount, TRUE)
       = CleanupResult(cleanupAgeDays, cleanupMinCount, FALSE)

\* --- auto-trace replenishment
\* The entries a step flips from not traced to traced
FlippedToTraced ==
  {v \in DOMAIN vocabulary \cap DOMAIN vocabulary' :
     ~vocabulary[v].isTraced /\ vocabulary'[v].isTraced}

\* C32: after the auto-trace replenishment of a scan flips an entry to
\* isTraced = true, the entry's stored familiarityScore is the score of its
\* encounters with traced = true, and its isKnown matches that score.
C32_ReplenishRecomputes ==
  [][\A p \in Procs :
       scans[p].pc = "traceWrite" /\ scans'[p].pc = "idle"
       => \A v \in FlippedToTraced :
            /\ vocabulary'[v].familiarityScore
                 = calculateWeightedScore(encounters', v, 2)
            /\ vocabulary'[v].isKnown
                 = (vocabulary'[v].familiarityScore >= ScoreCeiling)]_vars

\* --- noise reconciliation and traced entries
\* C33: when the noise reconciliation unlocks a locked entry it manages
\* because the entry is traced, the entry's familiarityScore afterwards is
\* the score of its encounters with traced = true, not the locked ceiling.
C33_TracedUnlockKeepsComputedScore ==
  [][last'.op \in {"updateSettings", "initNoiseWords"}
     => \A v \in DOMAIN vocabulary :
          (/\ vocabulary[v].scoreLocked /\ vocabulary[v].noiseManaged
           /\ vocabulary[v].isTraced
           /\ ~vocabulary'[v].scoreLocked)
          => vocabulary'[v].familiarityScore
               = calculateWeightedScore(encounters', v, 2)]_vars

\* --- manual unlock and later reconciliations
\* The rows as resetNoiseWordFields leaves them
JustUnlocked ==
  {v \in DOMAIN vocabulary :
     /\ ~vocabulary[v].scoreLocked /\ ~vocabulary[v].noiseManaged
     /\ vocabulary[v].familiarityScore = 0 /\ ~vocabulary[v].isKnown}

\* C34: after unlockNoiseWord(v) succeeds, v stays scoreLocked = false
\* through a later noise reconciliation (start of the worker, settings
\* update, forced sync) as long as the noise configuration is unchanged.
\* Stated for the reconciliation that follows the unlock directly, in a
\* store of one row.
C34_UnlockSurvivesReconciliation ==
  [][(/\ last = Done("unlockNoiseWord", "ok")
      /\ Cardinality(DOMAIN vocabulary) = 1
      /\ last'.op \in {"updateSettings", "initNoiseWords"}
      /\ NoiseConfig(settings') = NoiseConfig(settings))
     => \A v \in JustUnlocked : ~vocabulary'[v].scoreLocked]_vars

\* --- auto-unlock by lookups
\* The encounters a step adds with the source 'lookup', by their owner
NewLookupOn(v) ==
  \E e \in (DOMAIN encounters') \ DOMAIN encounters :
     encounters'[e].vocabId = v /\ encounters'[e].source = "lookup"

LookupCount(enc, v) ==
  Cardinality({e \in EncOf(enc, v) : enc[e].source = "lookup"})

\* C35: when recordEncounter stores a new 'lookup' encounter for a
\* score-locked entry, the entry is unlocked (scoreLocked = false,
\* noiseManaged = false, familiarityScore = 0, isKnown = false) exactly when
\* it then has at least 2 lookup encounters; with fewer it stays locked with
\* score 100.
C35_UnlockAtSecondLookup ==
  [][last'.op = "recordEncounter"
     => \A v \in DOMAIN vocabulary :
          (vocabulary[v].scoreLocked /\ NewLookupOn(v))
          => IF LookupCount(encounters', v) >= 2
             THEN /\ ~vocabulary'[v].scoreLocked
                  /\ ~vocabulary'[v].noiseManaged
                  /\ vocabulary'[v].familiarityScore = 0
                  /\ ~vocabulary'[v].isKnown
             ELSE /\ vocabulary'[v].scoreLocked
                  /\ vocabulary'[v].familiarityScore = ScoreCeiling]_vars

\* --- rejected calls
\* C36: a recordEncounter call rejected with VALIDATION_ERROR (missing
\* pageUrl, missing both word and vocabId, or a pageUrl that does not parse)
\* leaves the encounters and the vocabulary entries unchanged.
C36_RejectedRecordWritesNothing ==
  [][(last'.op = "recordEncounter" /\ last'.status = "VALIDATION_ERROR")
     => UNCHANGED <<encounters, vocabulary>>]_vars

\* C37: rateWord on a score-locked entry fails with VALIDATION_ERROR, stores
\* no rating encounter and leaves the entry's familiarityScore, isKnown and
\* scoreLocked unchanged.  (The calls of SpecWeight are on vocabId 1.)
C37_LockedEntryNotRated ==
  [][(last'.op = "rateWord" /\ vocabulary[1].scoreLocked)
     => /\ last'.status = "VALIDATION_ERROR"
        /\ UNCHANGED encounters
        /\ vocabulary'[1].familiarityScore = vocabulary[1].familiarityScore
        /\ vocabulary'[1].isKnown = vocabulary[1].isKnown
        /\ vocabulary'[1].scoreLocked]_vars

\* A rating of the locked entry was rejected
C37_Witness ==
  /\ last = Done("rateWord", "VALIDATION_ERROR")
  /\ vocabulary[1].scoreLocked

\* --- encounters and their owners
\* C38: in every state reachable by a sequence of recordEncounter, rateWord,
\* deleteEncounter, deleteVocab (soft or hard), page scans and the cleanup,
\* every encounter's vocabId refers to a vocabulary row of the store.
C38_EncounterOwnerExists ==
  \A e \in DOMAIN encounters : encounters[e].vocabId \in DOMAIN vocabulary

\* A hard delete has removed an entry that had encounters, and encounters of
\* another entry are in the store
C38_Witness ==
  /\ last = Done("deleteVocab", "ok")
  /\ 1 \notin DOMAIN vocabulary
  /\ encounters # <<>>

\* C39: recordEncounter and rateWord never store an encounter owned by a
\* soft-deleted vocabulary entry, whether the entry is addressed by vocabId
\* or resolved from the lemma of a word.
C39_NoEncounterForDeletedEntry ==
  [][last'.op \in {"recordEncounter", "rateWord"}
     => \A e \in (DOMAIN encounters') \ DOMAIN encounters :
          /\ encounters'[e].vocabId \in DOMAIN vocabulary'
          /\ ~vocabulary'[encounters'[e].vocabId].deleted]_vars

=============================================================================
